---- MODULE Spec2Model ----
(***************************************************************************)
(* A model of the query synthesis engine of pbi-dax-query-agent:          *)
(*   skills/dax_query_builder.py   field classification, query patterns,  *)
(*                                 filter wrapping                        *)
(*   skills/extract_metadata.py    measure dependency resolution          *)
(*   skills/bookmark_parser.py     literal rendering                      *)
(*   skills/tmdl_parser.py         the semantic model index               *)
(*                                                                         *)
(* Text is modelled character by character: a Python str is a TLA+ string *)
(* and the operators below (Contains, Lower, Strip, Split, ...) do what    *)
(* the Python string methods and regular expressions of the source do.    *)
(* The source's only non-ASCII character, the dash inside the comment     *)
(* that parse_literal appends to a negative long, is written "-".         *)
(***************************************************************************)
EXTENDS Integers, Sequences, FiniteSets, TLC

(***************************************************************************)
(* Bounds of the model.                                                    *)
(***************************************************************************)
\* number of comma-joined parts of a usage label
MaxParts == 2
\* number of fields of a visual handed to classify_visual_fields
MaxFields == 2

(***************************************************************************)
(* Python string primitives.                                               *)
(***************************************************************************)
Char(s, i) == SubSeq(s, i, i)

\* the lower-case and the upper-case form of each ASCII letter
LowerOf ==
    "A" :> "a" @@ "B" :> "b" @@ "C" :> "c" @@ "D" :> "d" @@ "E" :> "e" @@ "F" :> "f" @@
    "G" :> "g" @@ "H" :> "h" @@ "I" :> "i" @@ "J" :> "j" @@ "K" :> "k" @@ "L" :> "l" @@
    "M" :> "m" @@ "N" :> "n" @@ "O" :> "o" @@ "P" :> "p" @@ "Q" :> "q" @@ "R" :> "r" @@
    "S" :> "s" @@ "T" :> "t" @@ "U" :> "u" @@ "V" :> "v" @@ "W" :> "w" @@ "X" :> "x" @@
    "Y" :> "y" @@ "Z" :> "z"

UpperOf ==
    "a" :> "A" @@ "b" :> "B" @@ "c" :> "C" @@ "d" :> "D" @@ "e" :> "E" @@ "f" :> "F" @@
    "g" :> "G" @@ "h" :> "H" @@ "i" :> "I" @@ "j" :> "J" @@ "k" :> "K" @@ "l" :> "L" @@
    "m" :> "M" @@ "n" :> "N" @@ "o" :> "O" @@ "p" :> "P" @@ "q" :> "Q" @@ "r" :> "R" @@
    "s" :> "S" @@ "t" :> "T" @@ "u" :> "U" @@ "v" :> "V" @@ "w" :> "W" @@ "x" :> "X" @@
    "y" :> "Y" @@ "z" :> "Z"

\* c occurs in the string set (a one-character membership test)
InChars(c, set) == \E i \in 1..Len(set) : Char(set, i) = c

LowerChar(c) == IF c \in DOMAIN LowerOf THEN LowerOf[c] ELSE c
UpperChar(c) == IF c \in DOMAIN UpperOf THEN UpperOf[c] ELSE c

RECURSIVE Lower(_)
\* str.lower()
Lower(s) ==
    IF Len(s) <= 1 THEN LowerChar(s)
    ELSE Lower(SubSeq(s, 1, Len(s) \div 2)) \o Lower(SubSeq(s, Len(s) \div 2 + 1, Len(s)))

RECURSIVE Upper(_)
\* str.upper()
Upper(s) ==
    IF Len(s) <= 1 THEN UpperChar(s)
    ELSE Upper(SubSeq(s, 1, Len(s) \div 2)) \o Upper(SubSeq(s, Len(s) \div 2 + 1, Len(s)))

\* k in s
Contains(s, k) == \E i \in 1..(Len(s) - Len(k) + 1) : SubSeq(s, i, i + Len(k) - 1) = k

\* s.startswith(k), s.endswith(k)
StartsWith(s, k) == Len(k) <= Len(s) /\ SubSeq(s, 1, Len(k)) = k
EndsWith(s, k) == Len(k) <= Len(s) /\ SubSeq(s, Len(s) - Len(k) + 1, Len(s)) = k

\* the characters str.strip() removes
Whitespace == " \t\n\r"

RECURSIVE LStrip(_)
LStrip(s) == IF s # "" /\ InChars(Head(s), Whitespace) THEN LStrip(Tail(s)) ELSE s

RECURSIVE RStrip(_)
RStrip(s) == IF s # "" /\ InChars(Char(s, Len(s)), Whitespace) THEN RStrip(SubSeq(s, 1, Len(s) - 1)) ELSE s

\* str.strip()
Strip(s) == RStrip(LStrip(s))

RECURSIVE JoinWith(_, _)
\* sep.join(parts)
JoinWith(sep, parts) ==
    IF parts = <<>> THEN ""
    ELSE IF Len(parts) = 1 THEN parts[1]
    ELSE parts[1] \o sep \o JoinWith(sep, Tail(parts))

Range(seq) == {seq[i] : i \in DOMAIN seq}

\* the least element of a non-empty set of positions
Least(ps) == CHOOSE i \in ps : \A j \in ps : i <= j

\* str.find(c, p): the first position at or after p that holds the character c,
\* 0 when none
NextChar(s, c, p) ==
    LET hits == {i \in p..Len(s) : Char(s, i) = c} IN IF hits = {} THEN 0 ELSE Least(hits)

RECURSIVE Split(_, _)
\* s.split(c) for a one-character separator
Split(s, c) ==
    LET i == NextChar(s, c, 1) IN
    IF i = 0 THEN <<s>> ELSE <<SubSeq(s, 1, i - 1)>> \o Split(SubSeq(s, i + 1, Len(s)), c)

\* all sequences over S of length lo..hi
SeqsOf(S, lo, hi) == UNION {[1..n -> S] : n \in lo..hi}

(***************************************************************************)
(* State.                                                                  *)
(***************************************************************************)
VARIABLES
    usage,          \* the usage label handed to classify_field
    role,           \* what classify_field returned for it ("none": not called yet)
    fields,         \* the field descriptors of the visual
    classified,     \* classify_visual_fields has returned
    grouping,       \* its four result lists
    measures,
    filters,
    slicer_fields,
    visual_type,    \* the visual's type ("slicer", "tableEx", ...)
    model,          \* the semantic model handed to the builder (NoModel: None)
    unique_measures,\* build_dax_query's de-duplicated measure rows
    pattern,        \* what build_dax_query returned ("none": not called yet)
    dax,
    agg_args,       \* the arguments handed to _implicit_measure_dax
    agg_dax,        \* what it returned ("none": not called yet)
    wrap_call,      \* a call of wrap_dax_with_filters: its arguments and what it returned
    visuals,        \* read_extractor_output's visuals, in sheet order
    page_filters,   \* its page_filters: page name -> filter rows
    call,           \* the entry point called and its arguments
    rows,           \* the rows write_output wrote to "DAX Queries by Visual"
    results,        \* what build_bookmark_queries returned
    result,         \* what get_single_visual_query returned
    warnings,       \* the redundancy warnings printed
    measures_lookup,\* (table, measure name) -> formula, in insertion order
    entity,         \* get_measure_source_tables' arguments: the measure's table
    prop,           \*   and its name
    phase,          \* "idle", "resolving" or "done"
    stack,          \* the active calls of resolve_measure_dependencies, innermost last
    visited,        \* the visited set the calls share
    calls,          \* the number of recursive calls made so far
    expanded,       \* the (table, name) of each measure whose formula a call parsed
    deps,           \* what the outermost resolve_measure_dependencies returned
    source_tables,  \* what get_measure_source_tables returned
    lit_val,        \* the literal handed to parse_literal
    parsed,         \* parse_literal has returned
    dax_val,        \* what it returned
    stored_condition, \* a stored Where[].Condition tree
    stored_from,    \* the From[] list stored with it
    called,         \* the function that has been called on them ("": none yet)
    dax_filter,     \* what condition_to_dax returned
    dax_filters,    \* the list a filter extractor returned
    bookmark_section, \* the section of a bookmark's explorationState
    page_visuals,   \* the ids of the visuals of the bookmark's page
    visibility,     \* what _extract_visual_visibility returned: id -> visible
    extracted       \* _extract_visual_visibility has returned

classifyVars == <<usage, role, fields, classified, grouping, measures, filters, slicer_fields>>

buildVars == <<visual_type, model, unique_measures, pattern, dax, agg_args, agg_dax, wrap_call>>

entryVars == <<visuals, page_filters, call, rows, results, result, warnings>>

depsVars == <<measures_lookup, entity, prop, phase, stack, visited, calls, expanded, deps, source_tables>>

literalVars == <<lit_val, parsed, dax_val>>

conditionVars == <<stored_condition, stored_from, called, dax_filter, dax_filters>>

visibilityVars == <<bookmark_section, page_visuals, visibility, extracted>>

vars == <<classifyVars, buildVars, entryVars, depsVars, literalVars, conditionVars, visibilityVars>>

\* a section without visualContainers and visualContainerGroups
NoSection == [visualContainers |-> <<>>, visualContainerGroups |-> <<>>]

\* visibility = {}
NoVisibility == [vid \in {} |-> TRUE]

VisibilityIdle ==
    /\ bookmark_section = NoSection
    /\ page_visuals = {}
    /\ visibility = NoVisibility
    /\ extracted = FALSE

ConditionIdle ==
    /\ stored_condition = <<>>
    /\ stored_from = <<>>
    /\ called = ""
    /\ dax_filter = ""
    /\ dax_filters = <<>>

\* Python's None; a str s of an optional value is <<s>>
NoValue == <<>>

LiteralIdle ==
    /\ lit_val = NoValue
    /\ parsed = FALSE
    /\ dax_val = ""

DepsIdle ==
    /\ measures_lookup = <<>>
    /\ entity = ""
    /\ prop = ""
    /\ phase = "idle"
    /\ stack = <<>>
    /\ visited = {}
    /\ calls = 0
    /\ expanded = <<>>
    /\ deps = <<>>
    /\ source_tables = <<>>

\* page_filters = {}
NoPageFilters == [p \in {} |-> <<>>]

\* no entry point has been called
NoCall ==
    [op |-> "none", filter_expr_data |-> <<>>, bookmarks |-> <<>>,
     visual_search |-> "", filter_exprs |-> <<>>, having_exprs |-> <<>>]

\* get_single_visual_query's return value None
None ==
    [matched |-> FALSE, page |-> "", visual_name |-> "", visual_type |-> "", pattern |-> "",
     dax_query |-> "", filters_applied |-> "", having_applied |-> ""]

EntryIdle ==
    /\ visuals = <<>>
    /\ page_filters = NoPageFilters
    /\ call = NoCall
    /\ rows = <<>>
    /\ results = <<>>
    /\ result = None
    /\ warnings = <<>>

(***************************************************************************)
(* Field Role Classifier: dax_query_builder.py                             *)
(***************************************************************************)
GroupingKeywords == <<"visual row", "visual column", "visual group">>

MeasureKeywords == <<"visual value", "visual x", "visual y2", "visual tooltip",
                     "visual size", "visual goal", "visual trend",
                     "visual min", "visual max", "visual target">>

\* any(k in u for k in keywords)
AnyIn(u, keywords) == \E i \in 1..Len(keywords) : Contains(u, keywords[i])

\* the same rules with the grouping test ahead of the "filter (measure)" test
classify_field_grouping_first(usage_label) ==
    LET u == Lower(usage_label) IN
    IF Contains(u, "slicer") THEN "slicer"
    ELSE IF Contains(u, "page filter") THEN "page_filter"
    ELSE IF AnyIn(u, GroupingKeywords) THEN "grouping"
    ELSE IF Contains(u, "filter (measure)") THEN "measure"
    ELSE IF AnyIn(u, MeasureKeywords) THEN "measure"
    ELSE IF Contains(u, "filter") THEN "filter"
    ELSE "other"

classify_field(usage_label) ==
    LET u == Lower(usage_label) IN
    IF Contains(u, "slicer") THEN "slicer"
    ELSE IF Contains(u, "page filter") THEN "page_filter"
    ELSE IF Contains(u, "filter (measure)") THEN "measure"
    ELSE IF AnyIn(u, GroupingKeywords) THEN "grouping"
    ELSE IF AnyIn(u, MeasureKeywords) THEN "measure"
    ELSE IF Contains(u, "filter") THEN "filter"
    ELSE "other"

\* f.get("agg_func") is truthy
HasAgg(f) == f.agg_func # ""

\* the role loop body of classify_visual_fields gives field f, without the
\* implicit-aggregation override
field_role_no_override(f) == classify_field(f.usage)

\* the role the loop body of classify_visual_fields gives field f
field_role(f) ==
    LET r == classify_field(f.usage) IN
    IF HasAgg(f) /\ r \in {"grouping", "other"} THEN "measure" ELSE r

RECURSIVE Filter(_, _, _)
\* the fields of fs, in order, whose role (roles: the role of each) is wanted
Filter(fs, roles, wanted) ==
    IF fs = <<>> THEN <<>>
    ELSE IF Head(roles) \in wanted THEN <<Head(fs)>> \o Filter(Tail(fs), Tail(roles), wanted)
    ELSE Filter(Tail(fs), Tail(roles), wanted)

\* classify_visual_fields(fields): (grouping, measures, filters, slicer_fields)
classify_visual_fields(fs) ==
    LET roles == [i \in DOMAIN fs |-> field_role(fs[i])] IN
    [grouping |-> Filter(fs, roles, {"grouping"}),
     measures |-> Filter(fs, roles, {"measure"}),
     filters |-> Filter(fs, roles, {"filter", "page_filter"}),
     slicer_fields |-> Filter(fs, roles, {"slicer"})]

(***************************************************************************)
(* Semantic Model Index: tmdl_parser.py.  A model is a record; present is  *)
(* FALSE for model=None.  columns and measures are the dicts keyed by      *)
(* (table, name), as sets of rows.                                          *)
(***************************************************************************)
NoModel == [present |-> FALSE, source |-> "", columns |-> {}, measures |-> {}]

SemanticModel(src, cols, meas) == [present |-> TRUE, source |-> src, columns |-> cols, measures |-> meas]

TmdlColumn(t, c, dt) == [table |-> t, name |-> c, data_type |-> dt]

\* SemanticModel.types_reliable
types_reliable(m) == m.source \notin {"pbixray", ""}

\* model.columns.get((table, column)): the set of matching rows (empty: None)
columns_get(m, t, c) == {ci \in m.columns : ci.table = t /\ ci.name = c}

(***************************************************************************)
(* Implicit measures: dax_query_builder.py                                 *)
(***************************************************************************)
AGG_FUNC_MAP ==
    "Sum" :> "SUM" @@ "Avg" :> "AVERAGE" @@ "Count" :> "COUNT" @@ "Min" :> "MIN" @@
    "Max" :> "MAX" @@ "CountNonNull" :> "COUNTA" @@ "Median" :> "MEDIAN"

NUMERIC_ONLY_FUNCS == {"SUM", "AVERAGE", "MEDIAN"}

\* AGG_FUNC_MAP.get(agg_func, agg_func.upper())
dax_func_of(agg_func) == IF agg_func \in DOMAIN AGG_FUNC_MAP THEN AGG_FUNC_MAP[agg_func] ELSE Upper(agg_func)

\* f"'{table}'[{column}]"
col_ref(t, c) == "'" \o t \o "'[" \o c \o "]"

\* f"{dax_func}({col_ref})"
plain_form(dax_func, t, c) == dax_func \o "(" \o col_ref(t, c) \o ")"

\* f"{x_func}('{table}', CONVERT({col_ref}, DOUBLE))"
iterator_form(dax_func, t, c) == dax_func \o "X('" \o t \o "', CONVERT(" \o col_ref(t, c) \o ", DOUBLE))"

_implicit_measure_dax(agg_func, t, c, m) ==
    LET dax_func == dax_func_of(agg_func) IN
    IF m.present /\ dax_func \in NUMERIC_ONLY_FUNCS
       /\ \E ci \in columns_get(m, t, c) : ci.data_type = "string"
    THEN iterator_form(dax_func, t, c)
    ELSE plain_form(dax_func, t, c)

\* a measure row after de-duplication carries measure_name
_measure_expression(m, mdl) ==
    IF HasAgg(m) THEN _implicit_measure_dax(m.agg_func, m.table_sm, m.measure_name, mdl)
    ELSE "[" \o m.measure_name \o "]"

(***************************************************************************)
(* Query Pattern Builder: dax_query_builder.py                             *)
(***************************************************************************)
\* the index of the first occurrence of the character c in s, 0 when absent
\* m = dict(m); m['measure_name'] = m['col_sm'].split(',')[0].strip()
with_measure_name(m) ==
    [ui_name |-> m.ui_name, usage |-> m.usage, table_sm |-> m.table_sm, col_sm |-> m.col_sm,
     measure_formula |-> m.measure_formula, agg_func |-> m.agg_func,
     measure_name |-> Strip(Split(m.col_sm, ",")[1])]

RECURSIVE keep_all_from(_, _)
\* the loop without the seen_measures test: every row is kept
keep_all_from(ms, seen_measures) ==
    IF ms = <<>> THEN <<>>
    ELSE <<with_measure_name(Head(ms))>> \o keep_all_from(Tail(ms), seen_measures)

RECURSIVE dedupe_from(_, _)
dedupe_from(ms, seen_measures) ==
    IF ms = <<>> THEN <<>>
    ELSE IF Head(ms).ui_name \in seen_measures THEN dedupe_from(Tail(ms), seen_measures)
    ELSE <<with_measure_name(Head(ms))>> \o dedupe_from(Tail(ms), seen_measures \cup {Head(ms).ui_name})

\* the de-duplication loop of build_dax_query: unique_measures
unique_measures_of(ms) == dedupe_from(ms, {})

UnknownComment == "-- Could not determine DAX pattern for this visual"

\* [f"        \"{s['ui_name']}\", '{s['table_sm']}'[{s['col_sm']}]" for s in fs]
select_parts(fs) == [i \in DOMAIN fs |-> "        \"" \o fs[i].ui_name \o "\", " \o col_ref(fs[i].table_sm, fs[i].col_sm)]

\* [f"    '{g['table_sm']}'[{g['col_sm']}]" for g in gs]
group_cols(gs) == [i \in DOMAIN gs |-> "    " \o col_ref(gs[i].table_sm, gs[i].col_sm)]

\* [f"    \"{m['ui_name']}\", {_measure_expression(m, model)}" for m in ms]
measure_pairs(ms, mdl) == [i \in DOMAIN ms |-> "    \"" \o ms[i].ui_name \o "\", " \o _measure_expression(ms[i], mdl)]

\* the VALUES / DISTINCT(SELECTCOLUMNS(...)) query over columns
columns_query(fs) ==
    IF Len(fs) = 1 THEN "EVALUATE\nVALUES(" \o col_ref(fs[1].table_sm, fs[1].col_sm) \o ")"
    ELSE "EVALUATE\nDISTINCT(\n    SELECTCOLUMNS(\n" \o JoinWith(",\n", select_parts(fs)) \o "\n    )\n)"

\* the branches of build_dax_query with the measures-only test ahead of the slicer test
select_query_measures_first(gs, ms, ss, vtype, mdl) ==
    IF gs = <<>> /\ ms # <<>> THEN
        IF Len(ms) = 1
        THEN [pattern |-> "Pattern 1: Single Measure", dax |-> "EVALUATE\n{ " \o _measure_expression(ms[1], mdl) \o " }"]
        ELSE [pattern |-> "Pattern 1: Multiple Measures",
              dax |-> "EVALUATE\nROW (\n" \o JoinWith(",\n", measure_pairs(ms, mdl)) \o "\n)"]
    ELSE IF vtype = "slicer" /\ ss # <<>> THEN [pattern |-> "Pattern 2: Columns Only", dax |-> columns_query(ss)]
    ELSE IF gs # <<>> /\ ms = <<>> THEN [pattern |-> "Pattern 2: Columns Only", dax |-> columns_query(gs)]
    ELSE IF gs # <<>> /\ ms # <<>> THEN
        [pattern |-> "Pattern 3: Columns + Measures",
         dax |-> "EVALUATE\nSUMMARIZECOLUMNS (\n"
                 \o JoinWith(",\n", group_cols(gs) \o measure_pairs(ms, mdl)) \o "\n)"]
    ELSE [pattern |-> "Unknown", dax |-> UnknownComment]

\* the branches of build_dax_query after de-duplication (ms: unique measures)
select_query(gs, ms, ss, vtype, mdl) ==
    IF vtype = "slicer" /\ ss # <<>> THEN [pattern |-> "Pattern 2: Columns Only", dax |-> columns_query(ss)]
    ELSE IF gs = <<>> /\ ms # <<>> THEN
        IF Len(ms) = 1
        THEN [pattern |-> "Pattern 1: Single Measure", dax |-> "EVALUATE\n{ " \o _measure_expression(ms[1], mdl) \o " }"]
        ELSE [pattern |-> "Pattern 1: Multiple Measures",
              dax |-> "EVALUATE\nROW (\n" \o JoinWith(",\n", measure_pairs(ms, mdl)) \o "\n)"]
    ELSE IF gs # <<>> /\ ms = <<>> THEN [pattern |-> "Pattern 2: Columns Only", dax |-> columns_query(gs)]
    ELSE IF gs # <<>> /\ ms # <<>> THEN
        [pattern |-> "Pattern 3: Columns + Measures",
         dax |-> "EVALUATE\nSUMMARIZECOLUMNS (\n"
                 \o JoinWith(",\n", group_cols(gs) \o measure_pairs(ms, mdl)) \o "\n)"]
    ELSE [pattern |-> "Unknown", dax |-> UnknownComment]

\* build_dax_query(grouping, measures, filters, slicer_fields, visual_type, model)
build_dax_query(gs, ms, fs, ss, vtype, mdl) == select_query(gs, unique_measures_of(ms), ss, vtype, mdl)

(***************************************************************************)
(* Filter Wrapper: dax_query_builder.py                                    *)
(***************************************************************************)
\* add_filter_comments(dax, filters)
add_filter_comments(d, fs) ==
    LET comments == [i \in DOMAIN fs |->
            "-- Filter: " \o col_ref(fs[i].table_sm, fs[i].col_sm) \o " (value not extracted)"]
    IN  IF fs # <<>> THEN d \o "\n\n" \o JoinWith("\n", comments) ELSE d

RECURSIVE core_lines(_)
\* the lines ahead of the first one that, stripped, starts with "-- Filter:"
core_lines(lines) ==
    IF lines = <<>> THEN <<>>
    ELSE IF StartsWith(Strip(Head(lines)), "-- Filter:") THEN <<>>
    ELSE <<Head(lines)>> \o core_lines(Tail(lines))

\* clean_dax = "\n".join(core_lines).rstrip()
clean_dax_of(d) == RStrip(JoinWith("\n", core_lines(Split(d, "\n"))))

RECURSIVE SkipWs(_, _)
\* regex \s*: the first position at or after p that holds no whitespace
SkipWs(s, p) == IF p <= Len(s) /\ InChars(Char(s, p), Whitespace) THEN SkipWs(s, p + 1) ELSE p

\* re.search(r"\{\s*(.+?)\s*\}", s): <<start, end>> of group 1 of the leftmost
\* match, <<0, 0>> for no match.  The lazy group starting at g ends at the
\* least e on g's line (. matches no newline) that whitespace and "}" follow; the
\* greedy \s* after "{" gives characters back, so g is the greatest start in
\* (b + 1)..SkipWs(s, b + 1) for which such an end exists.
BraceSearch(s) ==
    LET line_end(g) == IF NextChar(s, "\n", g) = 0 THEN Len(s) ELSE NextChar(s, "\n", g) - 1
        ends(g) == {e \in g..line_end(g) :
                       LET q == SkipWs(s, e + 1) IN q <= Len(s) /\ Char(s, q) = "}"}
        group_starts(b) == {g \in (b + 1)..SkipWs(s, b + 1) : ends(g) # {}}
        starts == {b \in 1..Len(s) : Char(s, b) = "{" /\ group_starts(b) # {}}
    IN  IF starts = {} THEN <<0, 0>>
        ELSE LET gs == group_starts(Least(starts))
                 g == CHOOSE x \in gs : \A y \in gs : y <= x
             IN  <<g, Least(ends(g))>>

\* clean_dax[len("EVALUATE"):].strip() if clean_dax.upper().startswith("EVALUATE") else clean_dax
inner_of(clean) ==
    IF Len(clean) >= Len("EVALUATE") /\ Upper(SubSeq(clean, 1, Len("EVALUATE"))) = "EVALUATE"
    THEN Strip(SubSeq(clean, Len("EVALUATE") + 1, Len(clean)))
    ELSE clean

\* wrap_dax_with_filters without the Single Measure branch
wrap_dax_with_table_filters(base_dax, filter_exprs, pat) ==
    IF filter_exprs = <<>> THEN base_dax
    ELSE "EVALUATE\nCALCULATETABLE(\n    " \o inner_of(clean_dax_of(base_dax)) \o ",\n    "
             \o JoinWith(",\n    ", filter_exprs) \o "\n)"

\* wrap_dax_with_filters(base_dax, filter_exprs, pattern)
wrap_dax_with_filters(base_dax, filter_exprs, pat) ==
    IF filter_exprs = <<>> THEN base_dax
    ELSE LET clean == clean_dax_of(base_dax)
             filter_args == JoinWith(",\n    ", filter_exprs)
             m == BraceSearch(clean)
         IN  IF pat = "Pattern 1: Single Measure" /\ m[1] # 0
             THEN "EVALUATE\n{ CALCULATE(" \o SubSeq(clean, m[1], m[2]) \o ",\n    " \o filter_args \o "\n) }"
             ELSE "EVALUATE\nCALCULATETABLE(\n    " \o inner_of(clean) \o ",\n    " \o filter_args \o "\n)"

\* wrap_dax_with_having without the removal of the leading EVALUATE
wrap_dax_with_having_keeping_evaluate(d, having_exprs) ==
    IF having_exprs = <<>> THEN d
    ELSE "EVALUATE\nFILTER(\n    " \o clean_dax_of(d) \o ",\n    "
             \o JoinWith(" && ", having_exprs) \o "\n)"

\* wrap_dax_with_having(dax, having_exprs)
wrap_dax_with_having(d, having_exprs) ==
    IF having_exprs = <<>> THEN d
    ELSE "EVALUATE\nFILTER(\n    " \o inner_of(clean_dax_of(d)) \o ",\n    "
             \o JoinWith(" && ", having_exprs) \o "\n)"

(***************************************************************************)
(* Redundancy Checker: dax_query_builder.py                                *)
(***************************************************************************)
\* regex '([^']+)'\[([^\]]+)\] matched at position i: <<closing quote, closing
\* bracket>>, <<0, 0>> for no match
QuotedRefAt(s, i) ==
    IF i > Len(s) \/ Char(s, i) # "'" THEN <<0, 0>>
    ELSE LET j == NextChar(s, "'", i + 1) IN
         IF j = 0 \/ j = i + 1 \/ j + 1 > Len(s) \/ Char(s, j + 1) # "[" THEN <<0, 0>>
         ELSE LET k == NextChar(s, "]", j + 2) IN
              IF k = 0 \/ k = j + 2 THEN <<0, 0>> ELSE <<j, k>>

RECURSIVE QuotedRefsFrom(_, _)
\* pattern.finditer(expr) from position i: the (table, column) of each match, stripped
QuotedRefsFrom(s, i) ==
    IF i > Len(s) THEN <<>>
    ELSE LET m == QuotedRefAt(s, i) IN
         IF m[1] # 0
         THEN << <<Strip(SubSeq(s, i + 1, m[1] - 1)), Strip(SubSeq(s, m[1] + 2, m[2] - 1))>> >>
                  \o QuotedRefsFrom(s, m[2] + 1)
         ELSE QuotedRefsFrom(s, i + 1)

RECURSIVE AppendNew(_, _)
\* for x in xs: if x not in acc: acc.append(x)
AppendNew(acc, xs) ==
    IF xs = <<>> THEN acc
    ELSE AppendNew(IF Head(xs) \in Range(acc) THEN acc ELSE Append(acc, Head(xs)), Tail(xs))

RECURSIVE Concat(_)
\* the lists of a list of lists, one after the other
Concat(seqs) == IF seqs = <<>> THEN <<>> ELSE Head(seqs) \o Concat(Tail(seqs))

\* parse_filter_column_refs(filter_exprs)
parse_filter_column_refs(filter_exprs) ==
    AppendNew(<<>>, Concat([i \in DOMAIN filter_exprs |-> QuotedRefsFrom(filter_exprs[i], 1)]))

\* model.measures.get((table, name), "")
measures_get(mdl, t, n) ==
    IF \E x \in mdl.measures : x.table = t /\ x.name = n
    THEN (CHOOSE x \in mdl.measures : x.table = t /\ x.name = n).formula
    ELSE ""

\* check_filter_redundancy(measures, filter_exprs, model)
check_filter_redundancy(ms, filter_exprs, mdl) ==
    LET filter_refs == parse_filter_column_refs(filter_exprs)
        \* m.get("measure_formula", ""), else the model's formula
        formula_of(m) ==
            IF m.measure_formula # "" THEN m.measure_formula
            ELSE IF mdl.present THEN measures_get(mdl, m.table_sm, m.col_sm)
            ELSE ""
        \* one of the three textual forms of the reference occurs in the formula
        references(m, ftable, fcol) ==
            LET formula_upper == Upper(formula_of(m)) IN
            \/ Contains(formula_upper, Upper(col_ref(ftable, fcol)))
            \/ Contains(formula_upper, Upper(ftable \o "[" \o fcol \o "]"))
            \/ /\ Contains(formula_upper, Upper("[" \o fcol \o "]"))
               /\ Upper(m.table_sm) = Upper(ftable)
        \* next((e for e in filter_exprs if f"'{ftable}'[{fcol}]" in e), filter_exprs[0])
        matching_expr(ftable, fcol) ==
            LET hits == {i \in DOMAIN filter_exprs : Contains(filter_exprs[i], col_ref(ftable, fcol))} IN
            IF hits = {} THEN filter_exprs[1] ELSE filter_exprs[Least(hits)]
        warning(m, ftable, fcol) ==
            [measure_name |-> m.col_sm,
             filter_expr |-> matching_expr(ftable, fcol),
             filter_table |-> ftable,
             filter_column |-> fcol,
             measure_formula |-> SubSeq(formula_of(m), 1,
                                        IF Len(formula_of(m)) < 80 THEN Len(formula_of(m)) ELSE 80)]
    IN  IF filter_refs = <<>> THEN <<>>
        ELSE Concat([i \in DOMAIN ms |->
                 IF formula_of(ms[i]) = "" THEN <<>>
                 ELSE Concat([j \in DOMAIN filter_refs |->
                          IF references(ms[i], filter_refs[j][1], filter_refs[j][2])
                          THEN <<warning(ms[i], filter_refs[j][1], filter_refs[j][2])>>
                          ELSE <<>>])])

\* redundancy_warnings = check_filter_redundancy(measure_fields, exprs, model) with
\* measure_fields = [f for f in fields if classify_field(f["usage"]) == "measure"]
redundancy_warnings_of(fs, exprs, mdl) ==
    IF exprs = <<>> THEN <<>>
    ELSE check_filter_redundancy(SelectSeq(fs, LAMBDA f : classify_field(f.usage) = "measure"), exprs, mdl)

\* active_filters after the check: [f for f in exprs if f not in conflicting]
active_filters_of(fs, exprs, mdl) ==
    LET conflicting == {w.filter_expr : w \in Range(redundancy_warnings_of(fs, exprs, mdl))} IN
    SelectSeq(exprs, LAMBDA e : e \notin conflicting)

(***************************************************************************)
(* Filter classification: dax_query_builder.py                             *)
(***************************************************************************)
\* regex \w (ASCII)
IsWordChar(c) == c \in DOMAIN LowerOf \/ c \in DOMAIN UpperOf \/ InChars(c, "0123456789_")

\* _is_measure_filter without its first test: an aggregation call does not
\* make the filter post-aggregation
_is_measure_filter_without_aggregations(e) ==
    IF \E i \in 1..Len(e) : QuotedRefAt(e, i)[1] # 0 THEN FALSE
    ELSE \E p \in 1..Len(e) :
             /\ Char(e, p) = "["
             /\ (p = 1 \/ Char(e, p - 1) # "'")
             /\ LET k == NextChar(e, "]", p + 1) IN k # 0 /\ k > p + 1

\* _is_measure_filter(dax_expr)
_is_measure_filter(e) ==
    LET names == <<"SUM", "AVERAGE", "COUNT", "COUNTA", "MIN", "MAX", "MEDIAN",
                   "SUMX", "AVERAGEX", "COUNTX", "MINX", "MAXX">>
        \* re.search(r'\b(SUM|...|MAXX)\s*\(', e)
        has_aggregation_call ==
            \E p \in 1..Len(e), n \in DOMAIN names :
                /\ p + Len(names[n]) - 1 <= Len(e)
                /\ SubSeq(e, p, p + Len(names[n]) - 1) = names[n]
                /\ (p = 1 \/ ~IsWordChar(Char(e, p - 1)))
                /\ LET q == SkipWs(e, p + Len(names[n])) IN q <= Len(e) /\ Char(e, q) = "("
        \* re.search(r"'[^']+'\[[^\]]+\]", e)
        has_quoted_ref == \E i \in 1..Len(e) : QuotedRefAt(e, i)[1] # 0
        \* re.search(r"(?<!')\[[^\]]+\]", e)
        has_bare_ref ==
            \E p \in 1..Len(e) :
                /\ Char(e, p) = "["
                /\ (p = 1 \/ Char(e, p - 1) # "'")
                /\ LET k == NextChar(e, "]", p + 1) IN k # 0 /\ k > p + 1
    IN  IF has_aggregation_call THEN TRUE
        ELSE IF has_quoted_ref THEN FALSE
        ELSE IF has_bare_ref THEN TRUE
        ELSE FALSE

(***************************************************************************)
(* Inputs of the classifier.                                               *)
(***************************************************************************)
\* the usage labels the extractor writes (get_usage_label, parse_visual and the
\* page and report filter rows of extract_metadata.py) and labels of other
\* spellings; a label is up to MaxParts of them joined with ", "
LabelParts ==
    {"Slicer", "Page Filter", "Filter (Measure)", "Visual Row", "Visual Column",
     "Visual Group", "Visual Value", "Visual X", "Visual Y2", "Visual Tooltip",
     "Visual Size", "Visual Goal", "Visual Trend", "Visual Min", "Visual Max",
     "Visual Target", "Filter", "Report Filter", "Visual Legend", "VISUAL ROW"}

Labels == {JoinWith(", ", parts) : parts \in SeqsOf(LabelParts, 0, MaxParts)}

\* a field descriptor: one row of the extractor's sheet (read_extractor_output)
Field(ui, us, t, c, formula, agg) ==
    [ui_name |-> ui, usage |-> us, table_sm |-> t, col_sm |-> c,
     measure_formula |-> formula, agg_func |-> agg]

FieldLabels ==
    {"Slicer", "Page Filter", "Filter", "Visual Column", "Visual Value",
     "Visual Column, Filter (Measure)", "Visual Legend"}

ClassifyFieldPool ==
    {Field("Amount", us, "Sales", "Amount", "", agg) : us \in FieldLabels, agg \in {"", "Sum"}}

(***************************************************************************)
(* The classifier as a state machine: one action per function.             *)
(***************************************************************************)
ClassifyIdle ==
    /\ usage = ""
    /\ role = "none"
    /\ fields = <<>>
    /\ classified = FALSE
    /\ grouping = <<>>
    /\ measures = <<>>
    /\ filters = <<>>
    /\ slicer_fields = <<>>

NoAggArgs == [agg_func |-> "", table |-> "", column |-> ""]

\* wrap_dax_with_filters has not been called
NoWrap == [called |-> FALSE, base_dax |-> "", filter_exprs |-> <<>>, dax |-> ""]

BuildIdle ==
    /\ visual_type = ""
    /\ model = NoModel
    /\ unique_measures = <<>>
    /\ pattern = "none"
    /\ dax = ""
    /\ agg_args = NoAggArgs
    /\ agg_dax = "none"
    /\ wrap_call = NoWrap

InitClassify ==
    /\ BuildIdle
    /\ EntryIdle
    /\ DepsIdle
    /\ LiteralIdle
    /\ ConditionIdle
    /\ VisibilityIdle
    /\ role = "none"
    /\ classified = FALSE
    /\ grouping = <<>>
    /\ measures = <<>>
    /\ filters = <<>>
    /\ slicer_fields = <<>>
    /\ \/ usage \in Labels /\ fields = <<>>
       \/ usage = "" /\ fields \in SeqsOf(ClassifyFieldPool, 1, MaxFields)

\* role = classify_field(usage)
ClassifyField ==
    /\ role = "none"
    /\ role' = classify_field(usage)
    /\ UNCHANGED <<usage, fields, classified, grouping, measures, filters, slicer_fields>>
    /\ UNCHANGED <<buildVars, entryVars, depsVars, literalVars, conditionVars, visibilityVars>>

\* grouping, measures, filters, slicer_fields = classify_visual_fields(fields)
ClassifyVisualFields ==
    /\ ~classified
    /\ LET b == classify_visual_fields(fields) IN
        /\ grouping' = b.grouping
        /\ measures' = b.measures
        /\ filters' = b.filters
        /\ slicer_fields' = b.slicer_fields
    /\ classified' = TRUE
    /\ UNCHANGED <<usage, role, fields>>
    /\ UNCHANGED <<buildVars, entryVars, depsVars, literalVars, conditionVars, visibilityVars>>

NextClassify == ClassifyField \/ ClassifyVisualFields

SpecClassify == InitClassify /\ [][NextClassify]_vars

(***************************************************************************)
(* Claims about the classifier.                                            *)
(***************************************************************************)
\* the rules of the classifier as a table: keywords, role
RoleRules ==
    <<[keys |-> <<"slicer">>, role |-> "slicer"],
      [keys |-> <<"page filter">>, role |-> "page_filter"],
      [keys |-> <<"filter (measure)">>, role |-> "measure"],
      [keys |-> GroupingKeywords, role |-> "grouping"],
      [keys |-> MeasureKeywords, role |-> "measure"],
      [keys |-> <<"filter">>, role |-> "filter"]>>

\* rule n matches the lower-cased label u
RuleMatches(n, u) == AnyIn(u, RoleRules[n].keys)

\* C1: classify_field returns the role of the first rule, in the fixed order
\* slicer, page filter, filter (measure), grouping keywords, measure keywords,
\* filter, that matches the lower-cased label, and other when no rule matches;
\* 'Visual Column, Filter (Measure)' is measure.
C1_FirstMatchWins ==
    role # "none" =>
        LET u == Lower(usage) IN
        /\ \A n \in DOMAIN RoleRules :
              (RuleMatches(n, u) /\ \A k \in 1..(n - 1) : ~RuleMatches(k, u))
                  => role = RoleRules[n].role
        /\ (\A n \in DOMAIN RoleRules : ~RuleMatches(n, u)) => role = "other"
        /\ usage = "Visual Column, Filter (Measure)" => role = "measure"

C1_Witness == usage = "Visual Column, Filter (Measure)" /\ role = "measure"

InBuckets(f) ==
    <<f \in Range(grouping), f \in Range(measures), f \in Range(filters), f \in Range(slicer_fields)>>

\* C2: after classify_visual_fields, a field with an implicit aggregation whose
\* label classifies as grouping or other is in the measure bucket only; one whose
\* label classifies as slicer, filter or page_filter keeps that role; page_filter
\* fields are in the filter bucket; no field is in two buckets.
C2_ImplicitAggregationIsMeasure ==
    classified =>
        /\ \A i \in DOMAIN fields :
            LET f == fields[i]
                r == classify_field(f.usage)
            IN  /\ (HasAgg(f) /\ r \in {"grouping", "other"}) => InBuckets(f) = <<FALSE, TRUE, FALSE, FALSE>>
                /\ (HasAgg(f) /\ r = "slicer") => InBuckets(f) = <<FALSE, FALSE, FALSE, TRUE>>
                /\ (HasAgg(f) /\ r \in {"filter", "page_filter"}) => InBuckets(f) = <<FALSE, FALSE, TRUE, FALSE>>
                /\ r = "page_filter" => f \in Range(filters)
                /\ Cardinality({k \in 1..4 : InBuckets(f)[k]}) <= 1
        /\ Len(grouping) + Len(measures) + Len(filters) + Len(slicer_fields) <= Len(fields)

C2_Witness ==
    /\ classified
    /\ \E i \in DOMAIN fields :
        /\ HasAgg(fields[i])
        /\ classify_field(fields[i].usage) = "grouping"
        /\ fields[i] \in Range(measures)
    /\ \E i \in DOMAIN fields :
        /\ HasAgg(fields[i])
        /\ classify_field(fields[i].usage) = "slicer"
        /\ fields[i] \in Range(slicer_fields)

(***************************************************************************)
(* The query builder as a state machine.  A caller classifies the visual's *)
(* fields and hands the four lists to build_dax_query.                     *)
(***************************************************************************)
\* number of fields of a visual handed to build_dax_query
MaxQueryFields == 3

RevenueFormula == "SUM('Sales'[Amount])"

\* rows as the extractor writes them: a grouping column, a named measure with a
\* second row of its dependency resolution, a renamed measure, two implicit
\* measures, a slicer column and a filter column
QueryFieldPool ==
    {Field("Region", "Visual Column", "Store", "Region", "", ""),
     Field("Revenue", "Visual Value, Filter (Measure)", "Sales", "Revenue, Amount", RevenueFormula, ""),
     Field("Revenue", "Visual Value, Filter (Measure)", "Store", "Region", RevenueFormula, ""),
     Field("Total", "Visual Value, Filter (Measure)", "Sales", "Total Sales", "[Revenue]", ""),
     Field("Sum of Qty", "Visual Value", "Sales", "Qty", "", "Sum"),
     Field("Count of Name", "Visual Column", "Store", "Name", "", "Count"),
     Field("Region", "Slicer", "Store", "Region", "", ""),
     Field("Year", "Filter", "Date", "Year", "", "")}

\* a model read through pbixray (every column a string) and a PBIP model
PbixrayModel ==
    SemanticModel("pbixray",
        {TmdlColumn("Sales", "Qty", "string"), TmdlColumn("Store", "Name", "string")}, {})

PbipModel ==
    SemanticModel("pbip",
        {TmdlColumn("Sales", "Qty", "int64"), TmdlColumn("Store", "Name", "string")}, {})

Models == {NoModel, PbixrayModel, PbipModel}

\* PBI aggregation names (_get_agg_name) and one outside AGG_FUNC_MAP
AggFuncs == {"Sum", "Avg", "Count", "Min", "Max", "CountNonNull", "Median", "sum", "Func7"}

AggArgs == [agg_func : AggFuncs, table : {"Sales", "Store"}, column : {"Qty", "Name"}]

InitBuild ==
    /\ EntryIdle
    /\ DepsIdle
    /\ LiteralIdle
    /\ ConditionIdle
    /\ VisibilityIdle
    /\ usage = ""
    /\ role = "none"
    /\ classified = FALSE
    /\ grouping = <<>>
    /\ measures = <<>>
    /\ filters = <<>>
    /\ slicer_fields = <<>>
    /\ unique_measures = <<>>
    /\ pattern = "none"
    /\ dax = ""
    /\ agg_dax = "none"
    /\ wrap_call = NoWrap
    /\ model \in Models
    /\ \/ /\ fields \in SeqsOf(QueryFieldPool, 0, MaxQueryFields)
          /\ visual_type \in {"slicer", "tableEx"}
          /\ agg_args = NoAggArgs
       \/ /\ fields = <<>>
          /\ visual_type = ""
          /\ agg_args \in AggArgs

\* pattern, dax = build_dax_query(grouping, measures, filters, slicer_fields, visual_type, model)
BuildDaxQuery ==
    /\ classified
    /\ pattern = "none"
    /\ LET q == build_dax_query(grouping, measures, filters, slicer_fields, visual_type, model) IN
        /\ pattern' = q.pattern
        /\ dax' = q.dax
    /\ unique_measures' = unique_measures_of(measures)
    /\ UNCHANGED <<classifyVars, visual_type, model, agg_args, agg_dax, wrap_call, entryVars, depsVars, literalVars,
                   conditionVars, visibilityVars>>

\* agg_dax = _implicit_measure_dax(agg_func, table, column, model)
ImplicitMeasureDax ==
    /\ agg_args # NoAggArgs
    /\ agg_dax = "none"
    /\ agg_dax' = _implicit_measure_dax(agg_args.agg_func, agg_args.table, agg_args.column, model)
    /\ UNCHANGED <<classifyVars, visual_type, model, unique_measures, pattern, dax, agg_args, wrap_call, entryVars,
                   depsVars, literalVars, conditionVars, visibilityVars>>

\* filter expressions handed to wrap_dax_with_filters in one call
MaxFilterArgs == 2

\* wrap_dax_with_filters(base_dax, filter_exprs, pattern) on the query just
\* built, with or without the comment lines of its filter fields
WrapDaxWithFilters ==
    /\ pattern # "none"
    /\ ~wrap_call.called
    /\ \E base_dax \in {dax, add_filter_comments(dax, filters)},
          n \in 0..MaxFilterArgs :
      \E filter_exprs \in {SubSeq(<<"'Store'[Region] = \"East\"", "'Sales'[Amount] > 100",
                                    "'Date'[Year] = 2024">>, 1, n)} :
        wrap_call' = [called |-> TRUE, base_dax |-> base_dax, filter_exprs |-> filter_exprs,
                    dax |-> wrap_dax_with_filters(base_dax, filter_exprs, pattern)]
    /\ UNCHANGED <<classifyVars, visual_type, model, unique_measures, pattern, dax, agg_args, agg_dax, entryVars,
                   depsVars, literalVars, conditionVars, visibilityVars>>

NextBuild ==
    \/ agg_args = NoAggArgs /\ ClassifyVisualFields
    \/ BuildDaxQuery
    \/ ImplicitMeasureDax
    \/ WrapDaxWithFilters

SpecBuild == InitBuild /\ [][NextBuild]_vars

(***************************************************************************)
(* Claims about the query builder.                                         *)
(***************************************************************************)
SlicerCase == visual_type = "slicer" /\ slicer_fields # <<>>

DistinctNames == {measures[i].ui_name : i \in DOMAIN measures}

\* C3: the pattern follows from the emptiness of the grouping, measure and
\* slicer-field lists and the slicer flag, tested in the order slicer, measures
\* only (Single for one distinct display name, Multiple for more), columns only,
\* columns and measures; Unknown exactly when grouping and measures are empty
\* and the slicer case does not apply.
C3_PatternSelection ==
    pattern # "none" =>
        /\ SlicerCase => pattern = "Pattern 2: Columns Only"
        /\ (~SlicerCase /\ grouping = <<>> /\ measures # <<>>) =>
              pattern = IF Cardinality(DistinctNames) = 1 THEN "Pattern 1: Single Measure" ELSE "Pattern 1: Multiple Measures"
        /\ (~SlicerCase /\ grouping # <<>> /\ measures = <<>>) => pattern = "Pattern 2: Columns Only"
        /\ (~SlicerCase /\ grouping # <<>> /\ measures # <<>>) => pattern = "Pattern 3: Columns + Measures"
        /\ pattern = "Unknown" <=> (grouping = <<>> /\ measures = <<>> /\ ~SlicerCase)

C3_Witness ==
    /\ pattern = "Pattern 2: Columns Only"
    /\ SlicerCase
    /\ grouping # <<>>
    /\ measures # <<>>

\* the number of places where k occurs in s, and the first of them
CountOcc(s, k) == Cardinality({i \in 1..(Len(s) - Len(k) + 1) : SubSeq(s, i, i + Len(k) - 1) = k})
FirstPos(s, k) == CHOOSE i \in 1..(Len(s) - Len(k) + 1) :
                      /\ SubSeq(s, i, i + Len(k) - 1) = k
                      /\ \A j \in 1..(i - 1) : SubSeq(s, j, j + Len(k) - 1) # k

\* row i of the measure list is the first one with its display name
IsFirstRow(i) == \A j \in 1..(i - 1) : measures[j].ui_name # measures[i].ui_name
FirstRowOf(i) == CHOOSE j \in DOMAIN measures : measures[j].ui_name = measures[i].ui_name /\ IsFirstRow(j)

\* the expression of a measure row, and the text a query lists it as
ExprOfRow(r) == _measure_expression(with_measure_name(r), model)
EmittedAs(r) ==
    IF pattern = "Pattern 1: Single Measure" THEN "{ " \o ExprOfRow(r) \o " }"
    ELSE "\"" \o r.ui_name \o "\", " \o ExprOfRow(r)

MeasuresEmittedOnce ==
    /\ \A i \in DOMAIN measures :
          IF IsFirstRow(i) THEN CountOcc(dax, EmittedAs(measures[i])) = 1
          ELSE ExprOfRow(measures[i]) # ExprOfRow(measures[FirstRowOf(i)])
                   => CountOcc(dax, EmittedAs(measures[i])) = 0
    /\ \A i, j \in DOMAIN measures :
          (i < j /\ IsFirstRow(i) /\ IsFirstRow(j))
              => FirstPos(dax, EmittedAs(measures[i])) < FirstPos(dax, EmittedAs(measures[j]))

\* C5 as stated: every query build_dax_query emits lists exactly one measure
\* expression per distinct display name of the measure rows, in order of first
\* occurrence, built from the first row with that name.
C5_EveryQueryListsMeasures == pattern # "none" => MeasuresEmittedOnce

\* C5 (amended): a query of pattern Single Measure, Multiple Measures or
\* Columns + Measures lists exactly one measure expression per distinct display
\* name of the measure rows, in order of first occurrence, built from the first
\* row with that name; a Columns Only query lists no measure expression.
C5_MeasureQueriesListMeasures ==
    /\ pattern \in {"Pattern 1: Single Measure", "Pattern 1: Multiple Measures", "Pattern 3: Columns + Measures"} => MeasuresEmittedOnce
    /\ pattern = "Pattern 2: Columns Only" =>
          \A i \in DOMAIN measures : CountOcc(dax, EmittedAs(measures[i])) = 0

C5_Witness ==
    /\ pattern = "Pattern 1: Multiple Measures"
    /\ Len(measures) = 3
    /\ Len(unique_measures) = 2
    /\ \E i \in DOMAIN measures : ~IsFirstRow(i) /\ measures[i].col_sm # measures[FirstRowOf(i)].col_sm

\* C6 as stated: the iterator form with CONVERT is emitted exactly when the
\* model's typesReliable flag is false, the aggregation is SUM, AVERAGE or MEDIAN
\* and the column is recorded as a string; otherwise the plain form AGG('T'[C]).
C6_ConversionOnlyWhenTypesUnreliable ==
    agg_dax # "none" =>
        LET f == dax_func_of(agg_args.agg_func)
            t == agg_args.table
            c == agg_args.column
        IN  IF /\ model.present
               /\ ~types_reliable(model)
               /\ f \in {"SUM", "AVERAGE", "MEDIAN"}
               /\ \E ci \in model.columns : ci.table = t /\ ci.name = c /\ ci.data_type = "string"
            THEN agg_dax = f \o "X('" \o t \o "', CONVERT('" \o t \o "'[" \o c \o "], DOUBLE))"
            ELSE agg_dax = f \o "('" \o t \o "'[" \o c \o "])"

visual_query(v, pf, mdl) ==
    LET built(b, fs) ==
            LET named(q) == [pattern |-> q.pattern, dax |-> q.dax, filters |-> fs] IN
            named(build_dax_query(b.grouping, b.measures, fs, b.slicer_fields, v.visual_type, mdl))
        extended(b) == built(b, b.filters \o (IF v.page \in DOMAIN pf THEN pf[v.page] ELSE <<>>))
    IN  extended(classify_visual_fields(v.fields))

\* collect_filters_for_visual(page_name, visual_name, visual_id, filter_expr_data)
collect_filters_for_visual(page_name, visual_name, visual_id, filter_expr_data) ==
    LET applies(fe) ==
            /\ fe.filter_dax_expr # ""
            /\ ~StartsWith(fe.filter_dax_expr, "--")
            /\ \/ fe.filter_level = "Report"
               \/ fe.filter_level = "Page" /\ fe.page_name = page_name
               \/ /\ fe.filter_level = "Visual"
                  /\ \/ visual_id # "" /\ fe.visual_id = visual_id
                     \/ visual_id = "" /\ fe.visual_name = visual_name /\ fe.page_name = page_name
        exprs_of(kept) == [i \in DOMAIN kept |-> kept[i].filter_dax_expr]
    IN  exprs_of(SelectSeq(filter_expr_data, applies))

\* s.split(sep)[0]
BeforeFirst(s, sep) ==
    LET hits == {i \in 1..(Len(s) - Len(sep) + 1) : SubSeq(s, i, i + Len(sep) - 1) = sep} IN
    IF hits = {} THEN s ELSE SubSeq(s, 1, Least(hits) - 1)

\* the body of write_output's loop over the visuals: the row written for the
\* visual v and the warnings printed
output_row(v, pf, filter_expr_data, mdl) ==
    LET \* column filters through CALCULATE / CALCULATETABLE, then measure filters through FILTER
        with_having(with_cols, meas_filters) ==
            IF meas_filters # <<>> THEN wrap_dax_with_having(with_cols, meas_filters) ELSE with_cols
        with_filters(clean_base, col_filters, meas_filters, pat) ==
            with_having(IF col_filters # <<>> THEN wrap_dax_with_filters(clean_base, col_filters, pat)
                        ELSE clean_base,
                        meas_filters)
        filtered_of(clean_base, active_filters, pat) ==
            with_filters(clean_base,
                         SelectSeq(active_filters, LAMBDA f : ~_is_measure_filter(f)),
                         SelectSeq(active_filters, LAMBDA f : _is_measure_filter(f)),
                         pat)
        row_of(q, d, applicable_filters) ==
            [row |-> [page |-> v.page,
                      visual_name |-> v.visual_name,
                      visual_type |-> v.visual_type,
                      pattern |-> q.pattern,
                      dax |-> d,
                      filtered_dax |->
                          IF filter_expr_data # <<>> /\ q.pattern # "Unknown" /\ applicable_filters # <<>>
                          THEN filtered_of(BeforeFirst(d, "\n\n-- Filter:"),
                                           active_filters_of(v.fields, applicable_filters, mdl),
                                           q.pattern)
                          ELSE "",
                      filter_str |-> IF q.filters = <<>> THEN "None"
                                     ELSE JoinWith(", ", [i \in DOMAIN q.filters |->
                                              col_ref(q.filters[i].table_sm, q.filters[i].col_sm)])],
             printed |-> IF filter_expr_data # <<>> /\ q.pattern # "Unknown"
                         THEN redundancy_warnings_of(v.fields, applicable_filters, mdl)
                         ELSE <<>>]
        commented(q) ==
            row_of(q, add_filter_comments(q.dax, q.filters),
                   collect_filters_for_visual(v.page, v.visual_name, v.visual_id, filter_expr_data))
    IN  commented(visual_query(v, pf, mdl))

\* [f.strip() for f in filter_dax_str.split(";") if f.strip()] if filter_dax_str else []
split_filter_dax(filter_dax_str) ==
    LET stripped(parts) == [i \in DOMAIN parts |-> Strip(parts[i])] IN
    IF filter_dax_str = "" THEN <<>>
    ELSE SelectSeq(stripped(Split(filter_dax_str, ";")), LAMBDA f : f # "")

\* the body of build_bookmark_queries' inner loop for one visual name of one
\* bookmark group: the rows appended to results (none or one) and the
\* warnings printed.  The group holds the page and filter text of the
\* bookmark's last row, and for each visual name its last visibility.
bookmark_rows(bm_name, visual_name, bookmarks, vs, pf, mdl) ==
    LET nothing == [rows |-> <<>>, printed |-> <<>>]
        row_of(page_name, filter_exprs, v, q, active_filters) ==
            IF q.pattern = "Unknown" THEN nothing
            ELSE [rows |-> <<[bookmark_name |-> bm_name,
                              page_name |-> page_name,
                              visual_name |-> visual_name,
                              visual_type |-> v.visual_type,
                              dax_pattern |-> q.pattern,
                              dax_query |-> IF active_filters # <<>>
                                            THEN wrap_dax_with_filters(q.dax, active_filters, q.pattern)
                                            ELSE q.dax,
                              filters_applied |->
                                  JoinWith("; ", active_filters)
                                      \o (IF Len(active_filters) < Len(filter_exprs)
                                          THEN " | SKIPPED (redundant): "
                                                   \o JoinWith("; ", SelectSeq(filter_exprs,
                                                          LAMBDA f : f \notin Range(active_filters)))
                                          ELSE ""),
                              validated |-> ""]>>,
                  printed |-> redundancy_warnings_of(v.fields, filter_exprs, mdl)]
        matched(page_name, filter_exprs, found) ==
            IF found = <<>> THEN nothing
            ELSE row_of(page_name, filter_exprs, found[1], visual_query(found[1], pf, mdl),
                        active_filters_of(found[1].fields, filter_exprs, mdl))
        looked_up(page_name, filter_exprs, visible) ==
            IF visible # "Y" THEN nothing
            ELSE matched(page_name, filter_exprs,
                         SelectSeq(vs, LAMBDA v : v.page = page_name /\ v.visual_name = visual_name))
        grouped(group, entries) ==
            looked_up(group[Len(group)].page_name, split_filter_dax(group[Len(group)].filter_dax),
                      entries[Len(entries)].visible)
    IN  grouped(SelectSeq(bookmarks, LAMBDA r : r.bookmark_name = bm_name),
                SelectSeq(bookmarks, LAMBDA r : r.bookmark_name = bm_name /\ r.visual_name = visual_name))

\* build_bookmark_queries(bookmarks, visuals, page_filters, model): bm_groups
\* keeps the bookmark names, and each group the visual names, in the order of
\* their first row
build_bookmark_queries(bookmarks, vs, pf, mdl) ==
    LET names_of(rs) == AppendNew(<<>>, [i \in DOMAIN rs |-> rs[i].bookmark_name])
        visual_names_of(group) == AppendNew(<<>>, [i \in DOMAIN group |-> group[i].visual_name])
        pairs_of(n, vnames) == [j \in DOMAIN vnames |-> <<n, vnames[j]>>]
        pairs_in(names) ==
            Concat([i \in DOMAIN names |->
                pairs_of(names[i], visual_names_of(SelectSeq(bookmarks, LAMBDA r : r.bookmark_name = names[i])))])
        each(pairs) == [k \in DOMAIN pairs |-> bookmark_rows(pairs[k][1], pairs[k][2], bookmarks, vs, pf, mdl)]
        collected(out) == [results |-> Concat([k \in DOMAIN out |-> out[k].rows]),
                           printed |-> Concat([k \in DOMAIN out |-> out[k].printed])]
    IN  collected(each(pairs_in(names_of(bookmarks))))

\* find_visual(visuals, search_term): exact + partial
find_visual(vs, search_term) ==
    LET full_lower(v) == Lower(v.page \o " / " \o v.visual_name)
        is_exact(v) == Lower(v.visual_name) = Lower(search_term) \/ full_lower(v) = Lower(search_term)
        is_partial(v) ==
            Contains(Lower(v.visual_name), Lower(search_term)) \/ Contains(full_lower(v), Lower(search_term))
    IN  SelectSeq(vs, is_exact) \o SelectSeq(vs, LAMBDA v : ~is_exact(v) /\ is_partial(v))

\* get_single_visual_query(visuals, page_filters, visual_search, filter_exprs, having_exprs, model)
get_single_visual_query(vs, pf, visual_search, filter_exprs, having_exprs, mdl) ==
    LET with_having(wrapped) ==
            IF having_exprs # <<>> THEN wrap_dax_with_having(wrapped, having_exprs) ELSE wrapped
        answer(v, q, active_filters) ==
            [result |-> [matched |-> TRUE,
                         page |-> v.page,
                         visual_name |-> v.visual_name,
                         visual_type |-> v.visual_type,
                         pattern |-> q.pattern,
                         dax_query |-> with_having(IF active_filters # <<>>
                                                   THEN wrap_dax_with_filters(q.dax, active_filters, q.pattern)
                                                   ELSE q.dax),
                         filters_applied |-> JoinWith("; ", active_filters),
                         having_applied |-> JoinWith("; ", having_exprs)],
             printed |-> redundancy_warnings_of(v.fields, filter_exprs, mdl)]
        first_of(matches) ==
            IF matches = <<>> THEN [result |-> None, printed |-> <<>>]
            ELSE answer(matches[1], visual_query(matches[1], pf, mdl),
                        active_filters_of(matches[1].fields, filter_exprs, mdl))
    IN  first_of(find_visual(vs, visual_search))

(***************************************************************************)
(* The entry points as a state machine: the extractor's sheets are read    *)
(* (Init), then one entry point is called with arguments of its own.       *)
(***************************************************************************)
MaxVisuals == 1
MaxFilterRows == 2
MaxFilterExprs == 1
MaxHavingExprs == 2
MaxBookmarkRows == 2

\* read_extractor_output: visuals[key] = {visual_type, visual_name, visual_id, fields}
Visual(page, key, name, id, type, fs) ==
    [page |-> page, key |-> key, visual_name |-> name, visual_id |-> id, visual_type |-> type, fields |-> fs]

\* a card with nothing but a filter field, a card and a table with a measure,
\* a slicer, and a card whose measure reads the column Year of another table
VisualPool ==
    LET YearFilter == Field("Year", "Filter", "Date", "Year", "", "")
        RegionColumn == Field("Region", "Visual Column", "Store", "Region", "", "")
    IN  {Visual("Sales", "v1", "Year Filter", "v1", "card", <<YearFilter>>),
         Visual("Sales", "v2", "Revenue Card", "v2", "card",
                <<Field("Revenue", "Visual Value", "Sales", "Revenue", "", "")>>),
         Visual("Sales", "Revenue by Region", "Revenue by Region", "", "tableEx",
                <<RegionColumn,
                  Field("Revenue", "Visual Value, Filter (Measure)", "Sales", "Revenue", RevenueFormula, ""),
                  YearFilter>>),
         Visual("Stores", "v4", "Region Slicer", "v4", "slicer",
                <<Field("Region", "Slicer", "Store", "Region", "", "")>>),
         Visual("Sales", "v5", "Budget Card", "v5", "card",
                <<Field("Budget", "Visual Value", "Sales", "Budget", "SUM('Budget'[Year])", "")>>)}

\* the visuals dict has one entry per (page, key)
VisualSeqs ==
    {vs \in SeqsOf(VisualPool, 1, MaxVisuals) :
        \A i, j \in DOMAIN vs : i # j => <<vs[i].page, vs[i].key>> # <<vs[j].page, vs[j].key>>}

PageFilterChoices ==
    {NoPageFilters, [p \in {"Sales"} |-> <<Field("Year", "Page Filter", "Date", "Year", "", "")>>]}

\* a PBIP model that defines the measure Revenue
MeasureModel ==
    SemanticModel("pbip", {TmdlColumn("Sales", "Amount", "double")},
        {[table |-> "Sales", name |-> "Revenue", formula |-> RevenueFormula]})

FilterExpr(page, name, id, level, fld, expr) ==
    [page_name |-> page, visual_name |-> name, visual_id |-> id, filter_level |-> level,
     filter_field |-> fld, filter_dax_expr |-> expr]

\* rows of the Filter Expressions sheet: one per level, a measure filter, a
\* filter on the column the measure reads, an unsupported entry, a column
\* compared with a measure, and a filter without any reference
FilterExprPool ==
    {FilterExpr("", "", "", "Report", "Year", "'Date'[Year] = 2024"),
     FilterExpr("Sales", "", "", "Page", "Amount", "'Sales'[Amount] > 100"),
     FilterExpr("Sales", "Revenue Card", "v2", "Visual", "Revenue", "[Revenue] > 0"),
     FilterExpr("Sales", "Revenue by Region", "", "Visual", "Qty", "SUM('Sales'[Qty]) > 5"),
     FilterExpr("", "", "", "Report", "Region", "-- TopN filter on 'Store'[Region]"),
     FilterExpr("Sales", "", "", "Page", "Qty", "'Sales'[Qty] > [Revenue]"),
     FilterExpr("", "", "", "Report", "", "TODAY() > DATE(2024, 1, 1)")}

Bookmark(name, page, vname, visible, fdax) ==
    [bookmark_name |-> name, page_name |-> page, container_id |-> "", visual_name |-> vname,
     visible |-> visible, filter_dax |-> fdax]

BookmarkPool ==
    {Bookmark("East", "Sales", "Revenue Card", "Y", "'Store'[Region] = \"East\"; 'Sales'[Amount] > 100"),
     Bookmark("East", "Sales", "Year Filter", "Y", "'Store'[Region] = \"East\""),
     Bookmark("East", "Sales", "Revenue by Region", "N", "'Store'[Region] = \"East\""),
     Bookmark("All", "Stores", "Region Slicer", "Y", ""),
     Bookmark("All", "Sales", "Revenue by Region", "Y", "'Date'[Year] = 2024;"),
     Bookmark("Range", "Sales", "Revenue by Region", "Y", "'Sales'[Amount] > 100; 'Sales'[Amount] < 500"),
     Bookmark("2020", "Sales", "Budget Card", "Y", "'Sales'[Year] = 2020"),
     Bookmark("Sold", "Sales", "Revenue Card", "Y", "'Store'[Region] = \"East\"; [Revenue] > 0")}

SearchTerms == {"year filter", "Revenue", "sales / revenue by region", "Region", "Profit"}

FilterExprs == {"'Store'[Region] = \"East\"", "'Sales'[Amount] > 100"}

HavingExprs == {"[Revenue] > 0", "[Revenue] < 9000"}

InitEntry ==
    /\ ClassifyIdle
    /\ DepsIdle
    /\ LiteralIdle
    /\ ConditionIdle
    /\ VisibilityIdle
    /\ visual_type = ""
    /\ unique_measures = <<>>
    /\ pattern = "none"
    /\ dax = ""
    /\ agg_args = NoAggArgs
    /\ agg_dax = "none"
    /\ wrap_call = NoWrap
    /\ model \in {NoModel, MeasureModel}
    /\ visuals \in VisualSeqs
    /\ page_filters \in PageFilterChoices
    /\ call = NoCall
    /\ rows = <<>>
    /\ results = <<>>
    /\ result = None
    /\ warnings = <<>>

\* The descriptors of a visual's fields after classify_visual_fields and
\* build_dax_query have run on them.  The lists classify_visual_fields returns
\* hold the descriptors themselves; build_dax_query writes measure_name into
\* the row it keeps for each ui_name, into the descriptor itself or, with
\* m = dict(m), into a copy of it.
descriptors_after(fs, copied) ==
    LET ms == classify_visual_fields(fs).measures
        kept == {ms[k] : k \in {k \in DOMAIN ms : \A j \in 1..(k - 1) : ms[j].ui_name # ms[k].ui_name}}
    IN  [i \in DOMAIN fs |-> IF ~copied /\ fs[i] \in kept THEN with_measure_name(fs[i]) ELSE fs[i]]

\* build_dax_query without m = dict(m): the key is written into the descriptor
fields_after_build_without_copy(fs) == descriptors_after(fs, FALSE)

\* m = dict(m); m['measure_name'] = ...: the key is written into the copy
fields_after_build(fs) == descriptors_after(fs, TRUE)

\* the visuals and the page filters after the shared part has run on the
\* visuals of `built`.  filters.extend(page_filters[page]) reads the list of
\* the page: the list that grows is the one classify_visual_fields made for
\* the call.
inputs_after(vs, pf, built) ==
    [visuals |-> [i \in DOMAIN vs |->
                     IF vs[i] \in built THEN [vs[i] EXCEPT !.fields = fields_after_build(@)] ELSE vs[i]],
     page_filters |-> pf]

\* key = matches[0]: the visual get_single_visual_query builds for, if any
first_match(vs, visual_search) ==
    LET one_of(matches) == IF matches = <<>> THEN {} ELSE {matches[1]} IN
    one_of(find_visual(vs, visual_search))

\* the visuals build_bookmark_queries finds: for each bookmark group and each
\* visual name that is visible in it, the first visual of the group's page
\* with that name
looked_up_visuals(bookmarks, vs) ==
    LET group(n) == SelectSeq(bookmarks, LAMBDA r : r.bookmark_name = n)
        last(rs) == rs[Len(rs)]
        found(n, vn) == SelectSeq(vs, LAMBDA v : v.page = last(group(n)).page_name /\ v.visual_name = vn)
    IN  {found(b.bookmark_name, b.visual_name)[1] :
            b \in {b \in Range(bookmarks) :
                      /\ last(SelectSeq(group(b.bookmark_name), LAMBDA r : r.visual_name = b.visual_name)).visible = "Y"
                      /\ found(b.bookmark_name, b.visual_name) # <<>>}}

\* write_output(visuals, page_filters, output_path, bookmark_queries, filter_expr_data, model)
WriteOutput ==
    /\ call = NoCall
    /\ \E filter_expr_data \in SeqsOf(FilterExprPool, 0, MaxFilterRows) :
      \E out \in {[i \in DOMAIN visuals |-> output_row(visuals[i], page_filters, filter_expr_data, model)]} :
        /\ call' = [NoCall EXCEPT !.op = "write_output", !.filter_expr_data = filter_expr_data]
        /\ rows' = [i \in DOMAIN out |-> out[i].row]
        /\ warnings' = Concat([i \in DOMAIN out |-> out[i].printed])
    /\ visuals' = inputs_after(visuals, page_filters, Range(visuals)).visuals
    /\ page_filters' = inputs_after(visuals, page_filters, Range(visuals)).page_filters
    /\ UNCHANGED <<classifyVars, buildVars, depsVars, literalVars, conditionVars, visibilityVars, results, result>>

\* results = build_bookmark_queries(bookmarks, visuals, page_filters, model)
BuildBookmarkQueries ==
    /\ call = NoCall
    /\ \E bookmarks \in SeqsOf(BookmarkPool, 0, MaxBookmarkRows) :
      \E out \in {build_bookmark_queries(bookmarks, visuals, page_filters, model)} :
        /\ call' = [NoCall EXCEPT !.op = "build_bookmark_queries", !.bookmarks = bookmarks]
        /\ results' = out.results
        /\ warnings' = out.printed
        /\ visuals' = inputs_after(visuals, page_filters, looked_up_visuals(bookmarks, visuals)).visuals
        /\ page_filters' = inputs_after(visuals, page_filters, looked_up_visuals(bookmarks, visuals)).page_filters
    /\ UNCHANGED <<classifyVars, buildVars, depsVars, literalVars, conditionVars, visibilityVars, rows, result>>

\* result = get_single_visual_query(visuals, page_filters, visual_search, filter_exprs, having_exprs, model)
GetSingleVisualQuery ==
    /\ call = NoCall
    /\ \E visual_search \in SearchTerms,
          filter_exprs \in SeqsOf(FilterExprs, 0, MaxFilterExprs),
          having_exprs \in SeqsOf(HavingExprs, 0, MaxHavingExprs) :
      \E out \in {get_single_visual_query(visuals, page_filters, visual_search, filter_exprs,
                                          having_exprs, model)} :
        /\ call' = [NoCall EXCEPT !.op = "get_single_visual_query", !.visual_search = visual_search,
                                  !.filter_exprs = filter_exprs, !.having_exprs = having_exprs]
        /\ result' = out.result
        /\ warnings' = out.printed
        /\ visuals' = inputs_after(visuals, page_filters, first_match(visuals, visual_search)).visuals
        /\ page_filters' = inputs_after(visuals, page_filters, first_match(visuals, visual_search)).page_filters
    /\ UNCHANGED <<classifyVars, buildVars, depsVars, literalVars, conditionVars, visibilityVars, rows, results>>

NextEntry == WriteOutput \/ BuildBookmarkQueries \/ GetSingleVisualQuery

SpecEntry == InitEntry /\ [][NextEntry]_vars

(***************************************************************************)
(* Claims about the entry points.                                          *)
(***************************************************************************)
\* the query text holds none of the filter wrappers
NoWrapper(q) == ~Contains(q, "CALCULATE(") /\ ~Contains(q, "CALCULATETABLE(") /\ ~Contains(q, "FILTER(")

\* C4: when the pattern is Unknown no query is produced: every entry point
\* reports the placeholder comment in place of a query and wraps no filter
\* around it.
C4_UnknownIsNeverWrapped ==
    /\ \A i \in DOMAIN rows :
          rows[i].pattern = "Unknown" =>
              /\ StartsWith(rows[i].dax, UnknownComment)
              /\ NoWrapper(rows[i].dax)
              /\ rows[i].filtered_dax = ""
    /\ \A i \in DOMAIN results :
          results[i].dax_pattern = "Unknown" => results[i].dax_query = UnknownComment
    /\ (result.matched /\ result.pattern = "Unknown") => result.dax_query = UnknownComment

\* the rows of the bookmark a result row was built for
GroupOf(r) == SelectSeq(call.bookmarks, LAMBDA b : b.bookmark_name = r.bookmark_name)

\* the filter expressions supplied with that bookmark
SuppliedTo(r) == split_filter_dax(GroupOf(r)[Len(GroupOf(r))].filter_dax)

\* the visual a result row was built for
VisualOf(r) == SelectSeq(visuals, LAMBDA v : v.page = r.page_name /\ v.visual_name = r.visual_name)[1]

\* the measure fields of a visual, and the formula of one
MeasureFieldsOf(v) == SelectSeq(v.fields, LAMBDA f : classify_field(f.usage) = "measure")

FormulaOf(m) ==
    IF m.measure_formula # "" THEN m.measure_formula
    ELSE IF model.present THEN measures_get(model, m.table_sm, m.col_sm)
    ELSE ""

\* the formula refers to column c of table t, as 'T'[C] or as T[C]
RefersTo(formula, t, c) ==
    LET text == Upper(formula)
        unquoted == Upper(t \o "[" \o c \o "]")
    IN  \/ Contains(text, Upper(col_ref(t, c)))
        \/ \E i \in 1..(Len(text) - Len(unquoted) + 1) :
              /\ SubSeq(text, i, i + Len(unquoted) - 1) = unquoted
              /\ i = 1 \/ (~IsWordChar(Char(text, i - 1)) /\ Char(text, i - 1) # "'")

\* the query read as EVALUATE FILTER(first, predicate): its two arguments,
\* the whole query and "" when no FILTER call wraps it
FilterCall(q) ==
    LET sep == ",\n    "
        seps == {k \in 1..(Len(q) - Len(sep)) : SubSeq(q, k, k + Len(sep) - 1) = sep}
        split_at(k) == [first |-> SubSeq(q, 1, k - 1),
                        predicate |-> SubSeq(q, k + Len(sep), Len(q) - Len("\n)"))]
    IN  IF StartsWith(q, "EVALUATE\nFILTER(\n") /\ EndsWith(q, "\n)") /\ seps # {}
        THEN split_at(CHOOSE k \in seps : \A j \in seps : j <= k)
        ELSE [first |-> q, predicate |-> ""]

\* the filter is one of the arguments that follow the first in the CALCULATE
\* or CALCULATETABLE call of the query
IsCalculateArgument(q, f) ==
    /\ Contains(FilterCall(q).first, "CALCULATE(") \/ Contains(FilterCall(q).first, "CALCULATETABLE(")
    /\ \/ Contains(FilterCall(q).first, ",\n    " \o f \o ",\n")
       \/ EndsWith(FilterCall(q).first, ",\n    " \o f \o "\n)")
       \/ EndsWith(FilterCall(q).first, ",\n    " \o f \o "\n) }")

\* C17: every filter supplied with a bookmark whose target 'T'[C] appears in
\* the formula of one of the visual's measures is left out of the wrapped
\* query, and a warning names the measure, the filter, the table and the
\* column; also when several supplied filters target the same column.
C17_OverlappingFiltersAreDropped ==
    \A i \in DOMAIN results :
        \A f \in Range(SuppliedTo(results[i])), m \in Range(MeasureFieldsOf(VisualOf(results[i]))) :
            \A ref \in Range(QuotedRefsFrom(f, 1)) :
                Contains(Upper(FormulaOf(m)), Upper(col_ref(ref[1], ref[2]))) =>
                    /\ ~IsCalculateArgument(results[i].dax_query, f)
                    /\ \E k \in DOMAIN warnings :
                          /\ warnings[k].measure_name = m.col_sm
                          /\ warnings[k].filter_expr = f
                          /\ warnings[k].filter_table = ref[1]
                          /\ warnings[k].filter_column = ref[2]

\* C18: when no measure formula of the visual refers to the table and column
\* a supplied filter targets, no filter is dropped and no warning is
\* produced: the active filters are the supplied ones, in the same order.
C18_NoOverlapKeepsAllFilters ==
    \A i \in DOMAIN results :
        (\A f \in Range(SuppliedTo(results[i])), m \in Range(MeasureFieldsOf(VisualOf(results[i]))) :
            \A ref \in Range(QuotedRefsFrom(f, 1)) : ~RefersTo(FormulaOf(m), ref[1], ref[2]))
        => /\ results[i].filters_applied = JoinWith("; ", SuppliedTo(results[i]))
           /\ \A k \in DOMAIN warnings : warnings[k].filter_expr \notin Range(SuppliedTo(results[i]))

\* the query is wrapped as the classes of the active filters say: the
\* pre-aggregation ones are arguments of CALCULATE / CALCULATETABLE and not in
\* the FILTER predicate, which is the conjunction of the post-aggregation ones
WrappedByClass(q, active_filters) ==
    /\ \A f \in Range(active_filters) :
          IF _is_measure_filter(f) THEN ~IsCalculateArgument(q, f)
          ELSE IsCalculateArgument(q, f) /\ ~Contains(FilterCall(q).predicate, f)
    /\ FilterCall(q).predicate = JoinWith(" && ", SelectSeq(active_filters, _is_measure_filter))

\* C20: in every filtered query of write_output and of build_bookmark_queries
\* a post-aggregation filter is in the FILTER predicate and is no argument of
\* CALCULATE or CALCULATETABLE, a pre-aggregation filter is such an argument
\* and is not in the FILTER predicate.
C20_FiltersWrappedByClass ==
    /\ \A i \in DOMAIN rows :
          rows[i].filtered_dax # "" =>
              WrappedByClass(rows[i].filtered_dax,
                  active_filters_of(visuals[i].fields,
                      collect_filters_for_visual(visuals[i].page, visuals[i].visual_name,
                                                 visuals[i].visual_id, call.filter_expr_data),
                      model))
    /\ \A i \in DOMAIN results :
          WrappedByClass(results[i].dax_query,
              active_filters_of(VisualOf(results[i]).fields, SuppliedTo(results[i]), model))


\* the visuals of the bookmark's page that carry the row's visual name
FoundFor(b) == SelectSeq(visuals, LAMBDA v : v.page = b.page_name /\ v.visual_name = b.visual_name)

\* the result rows built for the (bookmark, visual) pair of a Bookmarks row
RowsFor(b) ==
    {i \in DOMAIN results :
        /\ results[i].bookmark_name = b.bookmark_name
        /\ results[i].page_name = b.page_name
        /\ results[i].visual_name = b.visual_name}

\* C21: build_bookmark_queries returns exactly one row for each (bookmark,
\* visual) pair whose visual is visible in the bookmark, is on the bookmark's
\* page and has a pattern other than Unknown, and no row for a hidden visual;
\* also when two bookmarks share a display name.
C21_OneRowPerVisiblePair ==
    call.op = "build_bookmark_queries" =>
        \A b \in Range(call.bookmarks) :
            /\ (/\ b.visible = "Y"
                /\ FoundFor(b) # <<>>
                /\ visual_query(FoundFor(b)[1], page_filters, model).pattern # "Unknown")
                   => Cardinality(RowsFor(b)) = 1
            /\ b.visible # "Y" => RowsFor(b) = {}

\* the rows build_bookmark_queries returns for a Bookmarks row when that row
\* and its visual are the only ones in the input
AloneRows(b) == build_bookmark_queries(<<b>>, <<FoundFor(b)[1]>>, page_filters, model).results

\* C22: the row built for a (bookmark, visual) pair is the row built when the
\* pair is alone in the input: no other bookmark row and no other visual
\* changes it.
C22_PairsAreIndependent ==
    call.op = "build_bookmark_queries" =>
        \A b \in Range(call.bookmarks) :
            (b.visible = "Y" /\ FoundFor(b) # <<>>) =>
                \A i \in RowsFor(b) : AloneRows(b) = <<results[i]>>

\* the expression holds a call of one of the aggregation functions: the name
\* as a whole word start, then optional blanks, then "("
HasAggregationCall(f) ==
    \E name \in {"SUM", "AVERAGE", "COUNT", "COUNTA", "MIN", "MAX", "MEDIAN",
                 "SUMX", "AVERAGEX", "COUNTX", "MINX", "MAXX"} :
        \E p \in 1..Len(f) :
            /\ StartsWith(SubSeq(f, p, Len(f)), name)
            /\ p > 1 => ~IsWordChar(Char(f, p - 1))
            /\ StartsWith(LStrip(SubSeq(f, p + Len(name), Len(f))), "(")

\* the expression holds a table-qualified column 'T'[C]
HasQualifiedColumn(f) == QuotedRefsFrom(f, 1) # <<>>

\* the expression holds a [Name] that no quote precedes
HasBareName(f) ==
    \E p \in 1..Len(f), k \in 1..Len(f) :
        /\ k > p + 1
        /\ Char(f, p) = "[" /\ Char(f, k) = "]"
        /\ p > 1 => Char(f, p - 1) # "'"
        /\ \A j \in (p + 1)..(k - 1) : Char(f, j) # "]"

\* the class the four rules give, in their order
PostAggregationByRule(f) ==
    IF HasAggregationCall(f) THEN TRUE
    ELSE IF HasQualifiedColumn(f) THEN FALSE
    ELSE HasBareName(f)

\* the filters write_output keeps for the visual of row i
ActiveFiltersOfRow(i) ==
    active_filters_of(visuals[i].fields,
        collect_filters_for_visual(visuals[i].page, visuals[i].visual_name,
                                   visuals[i].visual_id, call.filter_expr_data),
        model)

\* C25: a filter is post-aggregation when it holds an aggregation call (also
\* one that wraps a qualified column); otherwise pre-aggregation when it
\* holds a 'T'[C] (also next to a bare [Measure]); otherwise post-aggregation
\* when it holds a bare [Name]; otherwise pre-aggregation.  In every filtered
\* query of write_output the filters of the FILTER predicate are the
\* post-aggregation ones by these rules.
C25_ClassifiedByRule ==
    \A i \in DOMAIN rows :
        rows[i].filtered_dax # "" =>
            \A f \in Range(ActiveFiltersOfRow(i)) :
                /\ _is_measure_filter(f) = PostAggregationByRule(f)
                /\ Contains(FilterCall(rows[i].filtered_dax).predicate, f) = PostAggregationByRule(f)
                /\ IsCalculateArgument(rows[i].filtered_dax, f) = ~PostAggregationByRule(f)

\* one filtered query holds an aggregation over a qualified column in its
\* FILTER predicate and a column compared with a bare measure as an argument
\* of its CALCULATE / CALCULATETABLE call
C25_Witness ==
    \E i \in DOMAIN rows :
        /\ Contains(FilterCall(rows[i].filtered_dax).predicate, "SUM('Sales'[Qty]) > 5")
        /\ IsCalculateArgument(rows[i].filtered_dax, "'Sales'[Qty] > [Revenue]")

\* another holds a bare measure comparison in its predicate and a filter
\* without any reference as an argument
C25_WitnessBare ==
    \E i \in DOMAIN rows :
        /\ Contains(FilterCall(rows[i].filtered_dax).predicate, "[Revenue] > 0")
        /\ IsCalculateArgument(rows[i].filtered_dax, "TODAY() > DATE(2024, 1, 1)")

\* the number of places where the text k starts in s
Occurrences(s, k) == Cardinality({i \in 1..(Len(s) - Len(k) + 1) : SubSeq(s, i, i + Len(k) - 1) = k})

\* q is the query `inside` (a query wrapped with the pre-aggregation filters)
\* wrapped once more: FILTER is the outermost call, its first argument is
\* `inside` without its EVALUATE, its predicate the && conjunction of the
\* post-aggregation filters in their order, and EVALUATE stands once, in front
FilterAroundWrapped(q, inside, post) ==
    /\ StartsWith(q, "EVALUATE\nFILTER(\n    ")
    /\ Occurrences(q, "EVALUATE") = 1
    /\ StartsWith(inside, "EVALUATE\n{ CALCULATE(") \/ StartsWith(inside, "EVALUATE\nCALCULATETABLE(\n")
    /\ "EVALUATE\n" \o SubSeq(FilterCall(q).first, Len("EVALUATE\nFILTER(\n    ") + 1, Len(FilterCall(q).first)) = inside
    /\ FilterCall(q).predicate = JoinWith(" && ", post)

\* the filters get_single_visual_query keeps for the visual it answers for
ActiveFiltersOfAnswer == split_filter_dax(result.filters_applied)

\* C26: when a visual has both pre-aggregation and post-aggregation active
\* filters, the base query is first wrapped with the pre-aggregation filters
\* (CALCULATE for a single measure, CALCULATETABLE otherwise) and the result
\* is then wrapped with FILTER: FILTER is outermost, its predicate is the &&
\* conjunction of the post-aggregation filters in their order, its first
\* argument is the already wrapped query, and the final text has exactly one
\* EVALUATE, in front.  For write_output and for get_single_visual_query.
C26_FilterWrapsTheWrappedQuery ==
    /\ \A i \in DOMAIN rows :
          LET pre == SelectSeq(ActiveFiltersOfRow(i), LAMBDA f : ~PostAggregationByRule(f))
              post == SelectSeq(ActiveFiltersOfRow(i), PostAggregationByRule)
          IN  (rows[i].filtered_dax # "" /\ pre # <<>> /\ post # <<>>) =>
                  FilterAroundWrapped(rows[i].filtered_dax,
                      wrap_dax_with_filters(visual_query(visuals[i], page_filters, model).dax, pre, rows[i].pattern),
                      post)
    /\ (result.matched /\ ActiveFiltersOfAnswer # <<>> /\ call.having_exprs # <<>>) =>
          \E v \in Range(visuals) :
              /\ v.page = result.page /\ v.visual_name = result.visual_name
              /\ FilterAroundWrapped(result.dax_query,
                     wrap_dax_with_filters(visual_query(v, page_filters, model).dax, ActiveFiltersOfAnswer, result.pattern),
                     call.having_exprs)

\* write_output wrapped a single measure with CALCULATE and then FILTER, and
\* get_single_visual_query a table query with CALCULATETABLE and then FILTER
C26_WitnessOutput ==
    \E i \in DOMAIN rows :
        /\ rows[i].pattern = "Pattern 1: Single Measure"
        /\ StartsWith(rows[i].filtered_dax, "EVALUATE\nFILTER(\n    { CALCULATE(")
        /\ FilterCall(rows[i].filtered_dax).predicate = "[Revenue] > 0"

C26_Witness ==
    /\ result.matched
    /\ StartsWith(result.dax_query, "EVALUATE\nFILTER(\n    CALCULATETABLE(")
    /\ FilterCall(result.dax_query).predicate = "[Revenue] < 9000 && [Revenue] > 0"

\* the keys of a field descriptor as read_extractor_output makes it
DescriptorKeys == {"ui_name", "usage", "table_sm", "col_sm", "measure_formula", "agg_func"}

\* what the entry point of the state's call returns when it is called again,
\* with the same arguments, on the inputs as they are now
BuiltAgain ==
    [rows |-> IF call.op = "write_output"
              THEN [i \in DOMAIN visuals |-> output_row(visuals[i], page_filters, call.filter_expr_data, model).row]
              ELSE rows,
     results |-> IF call.op = "build_bookmark_queries"
                 THEN build_bookmark_queries(call.bookmarks, visuals, page_filters, model).results
                 ELSE results,
     result |-> IF call.op = "get_single_visual_query"
                THEN get_single_visual_query(visuals, page_filters, call.visual_search, call.filter_exprs,
                                             call.having_exprs, model).result
                ELSE result]

Dep(t, c) == [table |-> t, column |-> c]

RECURSIVE direct_refs_from(_, _)
\* re.findall(r"(?:'([^']+)'|([A-Za-z_][\w\s]*?))\[([^\]]+)\]", formula) from
\* position i: the (table, column) of each match, not yet stripped.  At i
\* either the quoted alternative matches (QuotedRefAt), or s[i] is a letter or
\* "_", word characters and whitespace lead to the first "[" at b, and a
\* non-empty bracket content ends at the first "]" at k.
direct_refs_from(s, i) ==
    LET b == NextChar(s, "[", i + 1)
        k == NextChar(s, "]", b + 1)
        unquoted ==
            /\ Char(s, i) \in DOMAIN LowerOf \/ Char(s, i) \in DOMAIN UpperOf \/ Char(s, i) = "_"
            /\ b # 0
            /\ \A x \in (i + 1)..(b - 1) : IsWordChar(Char(s, x)) \/ InChars(Char(s, x), Whitespace)
            /\ k > b + 1
        quoted(m) ==
            IF m[1] # 0
            THEN <<Dep(SubSeq(s, i + 1, m[1] - 1), SubSeq(s, m[1] + 2, m[2] - 1))>>
                     \o direct_refs_from(s, m[2] + 1)
            ELSE IF unquoted
            THEN <<Dep(SubSeq(s, i, b - 1), SubSeq(s, b + 1, k - 1))>> \o direct_refs_from(s, k + 1)
            ELSE direct_refs_from(s, i + 1)
    IN  IF i > Len(s) THEN <<>> ELSE quoted(QuotedRefAt(s, i))

RECURSIVE nested_refs_from(_, _)
\* re.findall(r"(?<!['\w\]])\[([^\]]+)\]", formula) from position i
nested_refs_from(s, i) ==
    LET k == NextChar(s, "]", i + 1)
        bare ==
            /\ Char(s, i) = "["
            /\ i = 1 \/ ~(IsWordChar(Char(s, i - 1)) \/ InChars(Char(s, i - 1), "']"))
            /\ k > i + 1
    IN  IF i > Len(s) THEN <<>>
        ELSE IF bare THEN <<SubSeq(s, i + 1, k - 1)>> \o nested_refs_from(s, k + 1)
        ELSE nested_refs_from(s, i + 1)

\* a call of resolve_measure_dependencies(formula, measures_lookup, visited)
\* that has run its first loop: its dependencies (the direct references,
\* stripped, without the ones with an empty table or column, each once) and
\* the nested references its second loop still has to visit
Frame(formula) ==
    LET stripped(refs) == [i \in DOMAIN refs |-> Dep(Strip(refs[i].table), Strip(refs[i].column))] IN
    [dependencies |-> AppendNew(<<>>, SelectSeq(stripped(direct_refs_from(formula, 1)),
                                                LAMBDA r : r.table # "" /\ r.column # "")),
     nested_refs |-> nested_refs_from(formula, 1)]

\* measures_lookup.get((entity, prop), "")
lookup_get(lookup, t, n) ==
    LET hits == SelectSeq(lookup, LAMBDA e : e.table = t /\ e.name = n) IN
    IF hits = <<>> THEN "" ELSE hits[1].formula

\* for (tbl, mname), sub_formula in measures_lookup.items(): if mname == ref_name:
\* the entries with the name, the first one is the one taken
named(lookup, ref_name) == SelectSeq(lookup, LAMBDA e : e.name = ref_name)

\* the test that lets one name start at most one call
never_visited(ref_name, vis) == FALSE

\* if ref_name in visited: continue
already_visited(ref_name, vis) == ref_name \in vis

\* if any(d["column"] == ref_name for d in dependencies): continue
already_captured(ref_name, dependencies) == \E i \in DOMAIN dependencies : dependencies[i].column = ref_name

\* sub-dependencies appended without the membership test
add_all(dependencies, sub_deps) == dependencies \o sub_deps

\* for dep in sub_deps: if dep not in dependencies: dependencies.append(dep)
add_new(dependencies, sub_deps) == AppendNew(dependencies, sub_deps)

\* get_measure_source_tables without the insertion of the measure itself
without_own(ds, own) == ds

\* if measure_dep not in deps: deps.insert(0, measure_dep)
with_own(ds, own) == IF own \in Range(ds) THEN ds ELSE <<own>> \o ds

\* table_cols, and the list built from it: one entry per table in the order of
\* first occurrence, its columns each once and comma-joined
merge_by_table(ds) ==
    LET cols_of(rs) == AppendNew(<<>>, [i \in DOMAIN rs |-> rs[i].column])
        entry(t) == Dep(t, JoinWith(", ", cols_of(SelectSeq(ds, LAMBDA r : r.table = t))))
        entries(tables) == [i \in DOMAIN tables |-> entry(tables[i])]
    IN  entries(AppendNew(<<>>, [i \in DOMAIN ds |-> ds[i].table]))

\* what get_measure_source_tables returns once resolve_measure_dependencies
\* has returned ds
source_tables_of(t, n, ds) ==
    IF ds = <<>> THEN <<Dep(t, n)>> ELSE merge_by_table(with_own(ds, Dep(t, n)))

(***************************************************************************)
(* Dependency resolution as a state machine: get_measure_source_tables is  *)
(* called (Call), each call of resolve_measure_dependencies visits its     *)
(* nested references one by one (SkipRef, VisitRef), and returns to its    *)
(* caller (ReturnNested) or to get_measure_source_tables (ReturnOutermost).*)
(***************************************************************************)
MaxMeasures == 3
\* a depth no call chain of the source reaches with the names below
MaxDepth == 6

\* measures that reference one another (also themselves, and in cycles), a
\* column with the name of a measure, and one measure name in two tables
MeasureChoices ==
    LET Measure(t, n, f) == [table |-> t, name |-> n, formula |-> f] IN
    {Measure("T1", "A", "[B] + [C]"), Measure("T1", "A", "[A] + T2[C] * 2"), Measure("T1", "A", "1"),
     Measure("T1", "B", "[C] + 1"), Measure("T1", "B", "SUM('T2'[B])"), Measure("T1", "B", "[A]"),
     Measure("T1", "C", "[A]"), Measure("T1", "C", "SUM('T2'[C])"),
     Measure("T2", "B", "[B]"), Measure("T2", "B", "")}

\* the parse of each formula, computed once: every call on a formula starts
\* from the same dependencies and nested references
Parsed == [f \in {m.formula : m \in MeasureChoices} |-> Frame(f)]

\* a dict holds one formula per (table, name)
Lookups ==
    {l \in SeqsOf(MeasureChoices, 1, MaxMeasures) :
        \A i, j \in DOMAIN l : i # j => <<l[i].table, l[i].name>> # <<l[j].table, l[j].name>>}

InitDeps ==
    /\ ClassifyIdle
    /\ BuildIdle
    /\ EntryIdle
    /\ LiteralIdle
    /\ ConditionIdle
    /\ VisibilityIdle
    /\ measures_lookup \in Lookups
    /\ entity = "T1" /\ prop \in {"A", "B"}
    /\ phase = "idle"
    /\ stack = <<>>
    /\ visited = {}
    /\ calls = 0
    /\ expanded = <<>>
    /\ deps = <<>>
    /\ source_tables = <<>>

\* get_measure_source_tables(entity, prop, measures_lookup) up to its call of
\* resolve_measure_dependencies, or to its return when there is no formula
Call ==
    /\ phase = "idle"
    /\ \E formula \in {lookup_get(measures_lookup, entity, prop)} :
          IF formula = ""
          THEN /\ phase' = "done"
               /\ source_tables' = <<Dep(entity, prop)>>
               /\ UNCHANGED <<stack, expanded>>
          ELSE /\ phase' = "resolving"
               /\ stack' = <<Parsed[formula]>>
               /\ expanded' = <<Dep(entity, prop)>>
               /\ UNCHANGED source_tables
    /\ UNCHANGED <<classifyVars, buildVars, entryVars, literalVars, conditionVars, visibilityVars, measures_lookup, entity, prop, visited, calls, deps>>

\* the innermost call and the next reference of its second loop
Top == stack[Len(stack)]
NextRef == Strip(Head(Top.nested_refs))

\* one iteration of the second loop that ends in a continue
SkipRef ==
    /\ phase = "resolving"
    /\ Top.nested_refs # <<>>
    /\ already_captured(NextRef, Top.dependencies) \/ already_visited(NextRef, visited)
    /\ stack' = [stack EXCEPT ![Len(stack)].nested_refs = Tail(@)]
    /\ UNCHANGED <<classifyVars, buildVars, entryVars, literalVars, conditionVars, visibilityVars, measures_lookup, entity, prop, phase, visited, calls,
                   expanded, deps, source_tables>>

\* one iteration that adds the name to visited and, when the lookup holds a
\* measure of that name, adds it to the dependencies and calls
\* resolve_measure_dependencies on its formula
VisitRef ==
    /\ phase = "resolving"
    /\ Len(stack) < MaxDepth
    /\ Top.nested_refs # <<>>
    /\ ~already_captured(NextRef, Top.dependencies)
    /\ ~already_visited(NextRef, visited)
    /\ visited' = visited \cup {NextRef}
    /\ \E found \in {named(measures_lookup, NextRef)} :
          IF found = <<>>
          THEN /\ stack' = [stack EXCEPT ![Len(stack)].nested_refs = Tail(@)]
               /\ UNCHANGED <<calls, expanded>>
          ELSE /\ stack' = Append([stack EXCEPT ![Len(stack)] =
                                      [dependencies |-> add_new(@.dependencies,
                                                                  <<Dep(found[1].table, found[1].name)>>),
                                       nested_refs |-> Tail(@.nested_refs)]],
                                  Parsed[found[1].formula])
               /\ calls' = calls + 1
               /\ expanded' = Append(expanded, Dep(found[1].table, found[1].name))
    /\ UNCHANGED <<classifyVars, buildVars, entryVars, literalVars, conditionVars, visibilityVars, measures_lookup, entity, prop, phase, deps, source_tables>>

\* a recursive call returns: its caller appends the dependencies it has not yet
ReturnNested ==
    /\ phase = "resolving"
    /\ Len(stack) > 1
    /\ Top.nested_refs = <<>>
    /\ stack' = [SubSeq(stack, 1, Len(stack) - 1) EXCEPT ![Len(stack) - 1].dependencies =
                    add_new(@, Top.dependencies)]
    /\ UNCHANGED <<classifyVars, buildVars, entryVars, literalVars, conditionVars, visibilityVars, measures_lookup, entity, prop, phase, visited, calls,
                   expanded, deps, source_tables>>

\* the outermost call returns and get_measure_source_tables merges by table
ReturnOutermost ==
    /\ phase = "resolving"
    /\ Len(stack) = 1
    /\ Top.nested_refs = <<>>
    /\ deps' = Top.dependencies
    /\ source_tables' = source_tables_of(entity, prop, Top.dependencies)
    /\ stack' = <<>>
    /\ phase' = "done"
    /\ UNCHANGED <<classifyVars, buildVars, entryVars, literalVars, conditionVars, visibilityVars, measures_lookup, entity, prop, visited, calls, expanded>>

NextDeps == Call \/ SkipRef \/ VisitRef \/ ReturnNested \/ ReturnOutermost

SpecDeps == InitDeps /\ [][NextDeps]_vars

\* a call that can take a step takes it: the interpreter runs the function on
SpecDepsFair == SpecDeps /\ WF_vars(NextDeps)

(***************************************************************************)
(* Claims about dependency resolution                                      *)
(***************************************************************************)
\* the names the formulas of a lookup reference as bare [Measure]
ReferencedNames(lookup) ==
    {Strip(r) : r \in UNION {Range(nested_refs_from(lookup[i].formula, 1)) : i \in DOMAIN lookup}}

\* the lookup holds a cycle of three measures through bare references
ThreeCycle ==
    \E a, b, c \in DOMAIN measures_lookup :
        /\ measures_lookup[a].name = "A" /\ measures_lookup[a].formula = "[B] + [C]"
        /\ measures_lookup[b].name = "B" /\ measures_lookup[b].formula = "[C] + 1"
        /\ measures_lookup[c].name = "C" /\ measures_lookup[c].formula = "[A]"

\* C7: resolve_measure_dependencies terminates on every measure-formula map,
\* cyclic ones included: a recursive call is made only in a step that adds to
\* the visited set a name that was not in it, the number of recursive calls
\* and the recursion depth never exceed the number of distinct referenced
\* names, and every resolution reaches its return.
C7_ResolutionTerminates ==
    /\ [](/\ calls <= Cardinality(ReferencedNames(measures_lookup))
          /\ Len(stack) <= Cardinality(ReferencedNames(measures_lookup)) + 1)
    /\ [][calls' > calls =>
              /\ calls' = calls + 1
              /\ \E n \in ReferencedNames(measures_lookup) : n \notin visited /\ visited' = visited \cup {n}]_vars
    /\ <>(phase = "done")

\* a cycle of three measures is resolved: one recursive call per name, the
\* last of them on the measure the resolution started from
C7_Witness ==
    /\ phase = "done"
    /\ ThreeCycle
    /\ prop = "A"
    /\ calls = 3
    /\ visited = {"A", "B", "C"}

\* the names listed in the column field of one merged entry
ColumnsOf(e) == LET parts(ps) == [i \in DOMAIN ps |-> Strip(ps[i])] IN parts(Split(e.column, ","))

Distinct(xs) == \A i, j \in DOMAIN xs : i # j => xs[i] # xs[j]

\* C8 as stated: no name occurs twice in the list resolve_measure_dependencies
\* returns, nor twice in the merged list of get_measure_source_tables.
C8_EachNameOnce ==
    phase = "done" =>
        /\ Distinct([i \in DOMAIN deps |-> deps[i].column])
        /\ Distinct(Concat([i \in DOMAIN source_tables |-> ColumnsOf(source_tables[i])]))

\* C8, amended: no (table, name) pair occurs twice in the list
\* resolve_measure_dependencies returns; the merged list has each table once
\* and no name twice under one table.  A name can occur under two tables.
C8_EachPairOnce ==
    phase = "done" =>
        /\ Distinct(deps)
        /\ Distinct([i \in DOMAIN source_tables |-> source_tables[i].table])
        /\ \A i \in DOMAIN source_tables : Distinct(ColumnsOf(source_tables[i]))

\* a resolution through a cycle whose result holds one name under two tables
C8_Witness ==
    /\ phase = "done"
    /\ prop \in visited
    /\ \E i, j \in DOMAIN deps : deps[i].column = deps[j].column /\ deps[i].table # deps[j].table
    /\ \E i, j \in DOMAIN source_tables :
          i # j /\ ColumnsOf(source_tables[i])[1] \in Range(ColumnsOf(source_tables[j]))

\* C9: get_measure_source_tables never returns an empty list.  Without a
\* formula, or with a formula that yields no dependencies, it returns exactly
\* the measure's own (table, name); otherwise the measure's name is listed
\* under the measure's table, every table among the dependencies has exactly
\* one entry, and there is no entry for any other table.
C9_SourceTablesNeverEmpty ==
    phase = "done" =>
        /\ source_tables # <<>>
        /\ IF lookup_get(measures_lookup, entity, prop) = "" \/ deps = <<>>
           THEN source_tables = <<Dep(entity, prop)>>
           ELSE /\ \E i \in DOMAIN source_tables :
                      source_tables[i].table = entity /\ prop \in Range(ColumnsOf(source_tables[i]))
                /\ \A d \in DOMAIN deps :
                      Cardinality({i \in DOMAIN source_tables : source_tables[i].table = deps[d].table}) = 1
                /\ \A i \in DOMAIN source_tables :
                      source_tables[i].table \in {entity} \cup {deps[d].table : d \in DOMAIN deps}

\* the formula's dependencies are all in another table and do not include the
\* measure: the result starts with the measure's own entry
C9_Witness ==
    /\ phase = "done"
    /\ deps # <<>>
    /\ Dep(entity, prop) \notin Range(deps)
    /\ \A d \in DOMAIN deps : deps[d].table # entity
    /\ Len(source_tables) = 2
    /\ source_tables[1] = Dep(entity, prop)

\* the rows _process_measure_field writes for the measure (entity, prop) shown
\* under the display name ui in a visual: one per entry of source_tables
MeasureRows(ui) ==
    [i \in DOMAIN source_tables |->
        Field(ui, "Visual Value", source_tables[i].table, source_tables[i].column,
              lookup_get(measures_lookup, entity, prop), "")]

\* what build_dax_query renders for the rows of one measure: the expression
\* of the one row its de-duplication keeps
RenderedMeasure(ui) == _measure_expression(unique_measures_of(MeasureRows(ui))[1], NoModel)

\* C23: for a named measure with a non-empty formula, build_dax_query, taking
\* the first row get_measure_source_tables wrote and the first comma-separated
\* token of its column field, renders [M] with M the measure's actual name,
\* for every dependency graph (cycles included) and also when the display
\* name in the visual differs from the measure's name.
C23_RendersActualMeasureName ==
    (phase = "done" /\ lookup_get(measures_lookup, entity, prop) # "") =>
        \A ui \in {prop, "Shown " \o prop} : RenderedMeasure(ui) = "[" \o prop \o "]"

\* C24: during one top-level resolution, started with an empty visited set,
\* the formula of each measure is expanded at most once; this includes the
\* measure being resolved when it is reachable from itself through a cycle.
C24_EachFormulaExpandedOnce == Distinct(expanded)

(***************************************************************************)
(* Literal parsing: bookmark_parser.py                                     *)
(***************************************************************************)
\* re \d+ over the whole of s (ASCII digits)
Digits(s) == s # "" /\ \A i \in 1..Len(s) : InChars(Char(s, i), "0123456789")

\* f"{int(ds)}" for a string of digits: the number it denotes, written in
\* decimal again
int_str(ds) ==
    LET RECURSIVE int(_)
        int(t) == IF t = "" THEN 0
                  ELSE 10 * int(SubSeq(t, 1, Len(t) - 1)) + (NextChar("0123456789", Char(t, Len(t)), 1) - 1)
        RECURSIVE str(_)
        str(n) == IF n < 10 THEN Char("0123456789", n + 1)
                  ELSE str(n \div 10) \o Char("0123456789", (n % 10) + 1)
    IN  str(int(ds))

\* the inner text of a quoted string, left as it is
keep_quotes(inner) == inner

\* inner.replace('"', '""')
escape_quotes(inner) == JoinWith("\"\"", Split(inner, "\""))

\* the comment a negative long integer gets; its dash is U+2014 in the source
OffsetComment == " /* relative offset - cannot resolve statically */"

\* parse_literal(value_str): value_str is None or a str
parse_literal(value_str) ==
    LET unsigned(t) == IF StartsWith(t, "-") THEN SubSeq(t, 2, Len(t)) ELSE t
        \* -?\d+(\.\d+)? over the whole of t
        number(t) ==
            LET decimal(u, dot) ==
                    IF dot = 0 THEN Digits(u)
                    ELSE Digits(SubSeq(u, 1, dot - 1)) /\ Digits(SubSeq(u, dot + 1, Len(u)))
            IN  decimal(unsigned(t), NextChar(unsigned(t), ".", 1))
        \* re.match(r"datetime'(\d{4})-(\d{2})-(\d{2})T", s)
        dt_match(s) ==
            /\ StartsWith(s, "datetime'")
            /\ Len(s) >= 20
            /\ Digits(SubSeq(s, 10, 13)) /\ Char(s, 14) = "-"
            /\ Digits(SubSeq(s, 15, 16)) /\ Char(s, 17) = "-"
            /\ Digits(SubSeq(s, 18, 19)) /\ Char(s, 20) = "T"
        render(s) ==
            IF Lower(s) = "null" THEN "BLANK()"
            ELSE IF Lower(s) \in {"true", "false"} THEN Upper(s)
            ELSE IF dt_match(s)
            THEN "DATE(" \o int_str(SubSeq(s, 10, 13)) \o ", " \o int_str(SubSeq(s, 15, 16))
                     \o ", " \o int_str(SubSeq(s, 18, 19)) \o ")"
            ELSE IF StartsWith(s, "'") /\ EndsWith(s, "'") /\ Len(s) >= 2
            THEN "\"" \o escape_quotes(SubSeq(s, 2, Len(s) - 1)) \o "\""
            ELSE IF EndsWith(s, "L") /\ Digits(unsigned(SubSeq(s, 1, Len(s) - 1)))
            THEN IF StartsWith(s, "-") THEN SubSeq(s, 1, Len(s) - 1) \o OffsetComment
                 ELSE SubSeq(s, 1, Len(s) - 1)
            ELSE IF EndsWith(s, "D") /\ number(SubSeq(s, 1, Len(s) - 1))
            THEN SubSeq(s, 1, Len(s) - 1)
            ELSE s      \* a plain number as well
    IN  IF value_str = NoValue THEN "BLANK()" ELSE render(Strip(value_str[1]))

(***************************************************************************)
(* parse_literal as a state machine: one call on a literal value           *)
(***************************************************************************)
\* whitespace around a literal value: up to MaxPad characters on each side
MaxPad == 1

\* None, and the literal shapes, texts close to them and other texts, each
\* with whitespace around it
Literals ==
    LET Pads == {p \in {"", " ", "\t", "  ", " \n"} : Len(p) <= MaxPad}
        Texts ==
            {"null", "NULL", "Null", "true", "True", "FALSE", "fAlse", "nulls", "truefalse",
             "datetime'2020-06-01T00:00:00'", "datetime'0001-12-31T23:59:59'", "datetime'2020-06-01'",
             "datetime'2020-6-01T00:00:00'", "DATETIME'2020-06-01T00:00:00'", "datetime'2020-06-01T",
             "'New Store'", "'true'", "'5L'", "'null'", "'-6L'", "'0D'", "'say \"hi\"'", "'\"'", "''", "'",
             "'a", "a'", "' padded '", "'O''Brien'",
             "2025L", "0L", "007L", "-6L", "-0L", "L", "-L", "5l", "12LL", "1.5L", "+5L",
             "0D", "1.5D", "-2.5D", "1.D", ".5D", "D", "-D", "1.2.3D", "3d",
             "42", "-3.14", "abc", "New Store", "a b", ""}
    IN  {NoValue} \cup {<<l \o t \o r>> : l \in Pads, t \in Texts, r \in Pads}

InitLiteral ==
    /\ ClassifyIdle
    /\ BuildIdle
    /\ EntryIdle
    /\ DepsIdle
    /\ ConditionIdle
    /\ VisibilityIdle
    /\ lit_val \in Literals
    /\ parsed = FALSE
    /\ dax_val = ""

\* dax_val = parse_literal(lit_val)
ParseLiteral ==
    /\ ~parsed
    /\ dax_val' = parse_literal(lit_val)
    /\ parsed' = TRUE
    /\ UNCHANGED <<classifyVars, buildVars, entryVars, depsVars, conditionVars, visibilityVars, lit_val>>

SpecLiteral == InitLiteral /\ [][ParseLiteral]_vars

(***************************************************************************)
(* Claims about literal parsing                                            *)
(***************************************************************************)
RECURSIVE StripZeros(_)
\* a string of digits without its leading zeros
StripZeros(ds) == IF Len(ds) > 1 /\ Head(ds) = "0" THEN StripZeros(Tail(ds)) ELSE ds

RECURSIVE Doubled(_)
\* the text with every double quote written twice
Doubled(t) ==
    IF t = "" THEN ""
    ELSE (IF Head(t) = "\"" THEN "\"\"" ELSE Head(t)) \o Doubled(Tail(t))

\* t without its last character
Front(t) == SubSeq(t, 1, Len(t) - 1)

\* t is a single-quoted string
IsQuoted(t) == Len(t) >= 2 /\ Head(t) = "'" /\ Char(t, Len(t)) = "'"

\* t is datetime'YYYY-MM-DDT...
IsDateTime(t) ==
    /\ Len(t) >= 20
    /\ SubSeq(t, 1, 9) = "datetime'"
    /\ \A i \in {10, 11, 12, 13, 15, 16, 18, 19} : InChars(Char(t, i), "0123456789")
    /\ Char(t, 14) = "-" /\ Char(t, 17) = "-" /\ Char(t, 20) = "T"

\* t is n or -n for a non-empty string of digits n
IsInteger(t) ==
    \E k \in {0, 1} :
        /\ Len(t) > k
        /\ k = 1 => Head(t) = "-"
        /\ \A i \in (k + 1)..Len(t) : InChars(Char(t, i), "0123456789")

\* t is an integer, or an integer, a point and a non-empty string of digits
IsDecimal(t) ==
    \/ IsInteger(t)
    \/ \E p \in 2..(Len(t) - 1) :
          /\ Char(t, p) = "."
          /\ IsInteger(SubSeq(t, 1, p - 1))
          /\ \A i \in (p + 1)..Len(t) : InChars(Char(t, i), "0123456789")

\* the rendering the claim gives for the text t, shape by shape
Rendering(t) ==
    IF Lower(t) = "null" THEN "BLANK()"
    ELSE IF Lower(t) = "true" THEN "TRUE"
    ELSE IF Lower(t) = "false" THEN "FALSE"
    ELSE IF IsDateTime(t)
    THEN "DATE(" \o StripZeros(SubSeq(t, 10, 13)) \o ", " \o StripZeros(SubSeq(t, 15, 16))
             \o ", " \o StripZeros(SubSeq(t, 18, 19)) \o ")"
    ELSE IF IsQuoted(t) THEN "\"" \o Doubled(SubSeq(t, 2, Len(t) - 1)) \o "\""
    ELSE IF t # "" /\ Char(t, Len(t)) = "L" /\ IsInteger(Front(t))
    THEN IF Head(t) = "-" THEN Front(t) \o OffsetComment ELSE Front(t)
    ELSE IF t # "" /\ Char(t, Len(t)) = "D" /\ IsDecimal(Front(t)) THEN Front(t)
    ELSE t

\* C10 as stated: None renders as BLANK(), and a text renders by its shape
\* (the text null, true/false in any case, datetime'YYYY-MM-DDT..., a
\* single-quoted string, nL, -nL, xD), anything else unchanged; a quoted
\* string is rendered as a string whatever its content looks like.
C10_RendersByShape ==
    parsed =>
        IF lit_val = NoValue THEN dax_val = "BLANK()"
        ELSE /\ dax_val = Rendering(lit_val[1])
             /\ IsQuoted(lit_val[1]) => Head(dax_val) = "\"" /\ Char(dax_val, Len(dax_val)) = "\""

\* C10, amended: None renders as BLANK(); a text is first stripped of its
\* leading and trailing whitespace and the stripped text renders by its shape,
\* anything else being returned stripped; a quoted string is rendered as a
\* string whatever its content looks like.
C10_RendersStrippedByShape ==
    parsed =>
        IF lit_val = NoValue THEN dax_val = "BLANK()"
        ELSE /\ dax_val = Rendering(Strip(lit_val[1]))
             /\ IsQuoted(Strip(lit_val[1])) =>
                    Head(dax_val) = "\"" /\ Char(dax_val, Len(dax_val)) = "\""

\* a padded quoted string with an embedded double quote has been rendered
C10_Witness ==
    /\ parsed
    /\ lit_val = <<" 'say \"hi\"' ">>
    /\ dax_val = "\"say \"\"hi\"\"\""

(***************************************************************************)
(* Condition to DAX conversion: bookmark_parser.py.  A dict is a function  *)
(* on its keys ({} is <<>>), a list is a sequence, a literal Value is      *)
(* NoValue or <<text>>.                                                    *)
(***************************************************************************)
\* d.get(k, default)
Get(d, k, default) == IF k \in DOMAIN d THEN d[k] ELSE default

\* _build_alias_map(from_entities): alias Name -> Entity, a later entry
\* replacing an earlier one of the same name
_build_alias_map(from_entities) ==
    LET valid(e) == Get(e, "Name", "") # "" /\ Get(e, "Entity", "") # ""
        last(a) == CHOOSE i \in DOMAIN from_entities :
                       /\ valid(from_entities[i]) /\ from_entities[i]["Name"] = a
                       /\ \A j \in DOMAIN from_entities :
                              (valid(from_entities[j]) /\ from_entities[j]["Name"] = a) => j <= i
    IN  [a \in {from_entities[i]["Name"] : i \in {j \in DOMAIN from_entities : valid(from_entities[j])}}
            |-> from_entities[last(a)]["Entity"]]

\* _resolve_column_ref(col_expr, alias_map): <<table, prop>>
_resolve_column_ref(col_expr, alias_map) ==
    LET resolve(property, source_ref) ==
            IF Get(source_ref, "Source", "") # "" /\ Get(source_ref, "Source", "") \in DOMAIN alias_map
            THEN <<alias_map[source_ref["Source"]], property>>
            ELSE <<Get(source_ref, "Entity", ""), property>>
        of(col) == resolve(Get(col, "Property", ""), Get(Get(col, "Expression", <<>>), "SourceRef", <<>>))
    IN  of(Get(col_expr, "Column", <<>>))

\* f"'{table}'[{col}]" if table else f"[{col}]", for tc = (table, col)
column_ref(tc) == IF tc[1] # "" THEN "'" \o tc[1] \o "'[" \o tc[2] \o "]" ELSE "[" \o tc[2] \o "]"

_COMPARISON_OPS == 0 :> "=" @@ 1 :> ">" @@ 2 :> ">=" @@ 3 :> "<" @@ 4 :> "<=" @@ 5 :> "<>"

\* _in_to_dax that renders a single value as a list as well
_in_to_dax_always_list(in_node, alias_map, negated) ==
    LET literal(val_row) == parse_literal(Get(Get(val_row[1], "Literal", <<>>), "Value", <<"">>))
        kept_rows(values) == SelectSeq(values, LAMBDA val_row : val_row # <<>>)
        render(cr, dax_values) ==
            (IF negated THEN "NOT " ELSE "") \o cr \o " IN {" \o JoinWith(", ", dax_values) \o "}"
        values_of(rs) == [i \in DOMAIN rs |-> literal(rs[i])]
    IN  IF Get(in_node, "Expressions", <<>>) = <<>> THEN "-- empty IN expression"
        ELSE render(column_ref(_resolve_column_ref(in_node["Expressions"][1], alias_map)),
                    values_of(kept_rows(Get(in_node, "Values", <<>>))))

\* _in_to_dax that leaves the value list open
_in_to_dax_unclosed(in_node, alias_map, negated) ==
    LET literal(val_row) == parse_literal(Get(Get(val_row[1], "Literal", <<>>), "Value", <<"">>))
        kept_rows(values) == SelectSeq(values, LAMBDA val_row : val_row # <<>>)
        render(cr, dax_values) ==
            IF Len(dax_values) = 1
            THEN cr \o (IF negated THEN " <> " ELSE " = ") \o dax_values[1]
            ELSE (IF negated THEN "NOT " ELSE "") \o cr \o " IN {" \o JoinWith(", ", dax_values)
        values_of(rs) == [i \in DOMAIN rs |-> literal(rs[i])]
    IN  IF Get(in_node, "Expressions", <<>>) = <<>> THEN "-- empty IN expression"
        ELSE render(column_ref(_resolve_column_ref(in_node["Expressions"][1], alias_map)),
                    values_of(kept_rows(Get(in_node, "Values", <<>>))))

\* _in_to_dax(in_node, alias_map, negated)
_in_to_dax(in_node, alias_map, negated) ==
    LET \* lit = val_row[0].get("Literal", {}).get("Value", "")
        literal(val_row) == parse_literal(Get(Get(val_row[1], "Literal", <<>>), "Value", <<"">>))
        \* if val_row and isinstance(val_row, list)
        kept_rows(values) == SelectSeq(values, LAMBDA val_row : val_row # <<>>)
        render(cr, dax_values) ==
            IF Len(dax_values) = 1
            THEN cr \o (IF negated THEN " <> " ELSE " = ") \o dax_values[1]
            ELSE (IF negated THEN "NOT " ELSE "") \o cr \o " IN {" \o JoinWith(", ", dax_values) \o "}"
        values_of(rs) == [i \in DOMAIN rs |-> literal(rs[i])]
    IN  IF Get(in_node, "Expressions", <<>>) = <<>> THEN "-- empty IN expression"
        ELSE render(column_ref(_resolve_column_ref(in_node["Expressions"][1], alias_map)),
                    values_of(kept_rows(Get(in_node, "Values", <<>>))))

\* the keys _condition_to_dax_inner tests, in the order of its if statements
NodeTypes ==
    <<"Comparison", "In", "Not", "And", "Or", "Between", "Contains", "DoesNotContain",
      "StartsWith", "DoesNotStartWith", "IsBlank", "IsNotBlank">>

\* a dispatch that does not know the two blank tests
node_type_without_blank(condition) ==
    LET present == {i \in 1..10 : NodeTypes[i] \in DOMAIN condition} IN
    IF present = {} THEN "" ELSE NodeTypes[Least(present)]

\* the first of these keys the condition holds, "" when it holds none
node_type(condition) ==
    LET present == {i \in DOMAIN NodeTypes : NodeTypes[i] \in DOMAIN condition} IN
    IF present = {} THEN "" ELSE NodeTypes[Least(present)]

RECURSIVE _condition_to_dax_inner(_, _)
_condition_to_dax_inner(condition, alias_map) ==
    LET ref(col_expr) == column_ref(_resolve_column_ref(col_expr, alias_map))
        \* parse_literal(node.get(key, {}).get("Literal", {}).get("Value", ""))
        lit(node, key) == parse_literal(Get(Get(Get(node, key, <<>>), "Literal", <<>>), "Value", <<"">>))
        child(node, key) == _condition_to_dax_inner(Get(node, key, <<>>), alias_map)
        comparison(comp) ==
            ref(Get(comp, "Left", <<>>)) \o " "
                \o Get(_COMPARISON_OPS, Get(comp, "ComparisonKind", 0), "=") \o " " \o lit(comp, "Right")
        negation(inner_expr) ==
            IF "In" \in DOMAIN inner_expr THEN _in_to_dax(inner_expr["In"], alias_map, TRUE)
            ELSE "NOT (" \o _condition_to_dax_inner(inner_expr, alias_map) \o ")"
        between(cr, node) ==
            cr \o " >= " \o lit(node, "Lower") \o " && " \o cr \o " <= " \o lit(node, "Upper")
        starts_with(cr, val) == "LEFT(" \o cr \o ", LEN(" \o val \o ")) = " \o val
        render(type, node) ==
            CASE type = "Comparison" -> comparison(node)
              [] type = "In" -> _in_to_dax(node, alias_map, FALSE)
              [] type = "Not" -> negation(Get(node, "Expression", <<>>))
              [] type = "And" -> child(node, "Left") \o " && " \o child(node, "Right")
              [] type = "Or" -> "(" \o child(node, "Left") \o ") || (" \o child(node, "Right") \o ")"
              [] type = "Between" -> between(ref(Get(node, "Left", <<>>)), node)
              [] type = "Contains" ->
                    "CONTAINSSTRING(" \o ref(Get(node, "Left", <<>>)) \o ", " \o lit(node, "Right") \o ")"
              [] type = "DoesNotContain" ->
                    "NOT CONTAINSSTRING(" \o ref(Get(node, "Left", <<>>)) \o ", " \o lit(node, "Right") \o ")"
              [] type = "StartsWith" -> starts_with(ref(Get(node, "Left", <<>>)), lit(node, "Right"))
              [] type = "DoesNotStartWith" ->
                    "NOT (" \o starts_with(ref(Get(node, "Left", <<>>)), lit(node, "Right")) \o ")"
              [] type = "IsBlank" -> "ISBLANK(" \o ref(Get(node, "Expression", <<>>)) \o ")"
              [] type = "IsNotBlank" -> "NOT ISBLANK(" \o ref(Get(node, "Expression", <<>>)) \o ")"
        dispatch(type) ==
            IF type = "" THEN "-- unsupported condition type" ELSE render(type, condition[type])
    IN  dispatch(node_type(condition))

\* condition_to_dax(condition, from_entities)
condition_to_dax(cond, entities) == _condition_to_dax_inner(cond, _build_alias_map(entities))

\* the loop over the Where clauses that both filter extractors run on a
\* stored query filter: the translations that are kept
where_filters(query_filter) ==
    LET translated(where_clauses, entities) ==
            [i \in DOMAIN where_clauses |->
                IF Get(where_clauses[i], "Condition", <<>>) = <<>> THEN ""
                ELSE condition_to_dax(where_clauses[i]["Condition"], entities)]
    IN  SelectSeq(translated(Get(query_filter, "Where", <<>>), Get(query_filter, "From", <<>>)),
                  LAMBDA d : d # "" /\ ~StartsWith(d, "--"))

\* _extract_single_filter(filter_obj)
_extract_single_filter(filter_obj) ==
    IF Get(filter_obj, "filter", <<>>) = <<>> THEN <<>> ELSE where_filters(filter_obj["filter"])

\* _extract_slicer_filters(section); visualContainers is the sequence of the
\* dict's values in its order
_extract_slicer_filters(section) ==
    LET query_filter(general) == Get(Get(Get(general, "properties", <<>>), "filter", <<>>), "filter", <<>>)
        of_general(general) ==
            IF query_filter(general) = <<>> THEN <<>> ELSE where_filters(query_filter(general))
        general_list(single_visual) ==
            Get(Get(Get(single_visual, "objects", <<>>), "merge", <<>>), "general", <<>>)
        of_visual(single_visual) ==
            IF Get(single_visual, "visualType", "") # "slicer" THEN <<>>
            ELSE LET gl == general_list(single_visual) IN Concat([i \in DOMAIN gl |-> of_general(gl[i])])
        of_containers(vcs) ==
            Concat([i \in DOMAIN vcs |-> of_visual(Get(vcs[i], "singleVisual", <<>>))])
    IN  of_containers(Get(section, "visualContainers", <<>>))

(***************************************************************************)
(* The condition translator as a state machine: a stored condition and its *)
(* From list are read from a bookmark, then one of the three functions is  *)
(* called on them.                                                         *)
(***************************************************************************)
MaxNesting == 2     \* levels of And / Or / Not above a leaf
MaxValues == 2      \* value rows of an In node

\* the stored conditions: every leaf shape, and And / Or / Not over a core
\* of them up to MaxNesting levels
Conditions ==
    LET Lit(v) == "Literal" :> ("Value" :> <<v>>)
        Col(p, source_ref) == "Column" :> ("Property" :> p @@ "Expression" :> ("SourceRef" :> source_ref))
        ByAlias == Col("Store Type", "Source" :> "s")
        ByEntity == Col("Year", "Entity" :> "Sales")
        Unresolved == Col("Region", "Source" :> "x")
        Columns == {ByAlias, ByEntity, Unresolved, Col("Region", "Source" :> "s" @@ "Entity" :> "Sales")}
        Comparison(c, k, v) == "Comparison" :> ("ComparisonKind" :> k @@ "Left" :> c @@ "Right" :> Lit(v))
        NoKind(c, v) == "Comparison" :> ("Left" :> c @@ "Right" :> Lit(v))
        Rows == UNION {[1..n -> {<<Lit("'East'")>>, <<Lit("'West'")>>}] : n \in 0..MaxValues}
        In(es, vs) == "In" :> ("Expressions" :> es @@ "Values" :> vs)
        Binary(type, c, v) == type :> ("Left" :> c @@ "Right" :> Lit(v))
        Between(c) == "Between" :> ("Left" :> c @@ "Lower" :> Lit("1L") @@ "Upper" :> Lit("9L"))
        Unary(type, c) == type :> ("Expression" :> c)
        Unknown == "Exists" :> ("Expression" :> ByAlias)
        Leaves ==
            {Comparison(c, k, "'New Store'") : c \in Columns, k \in 0..6}
                \cup {NoKind(c, "2020L") : c \in Columns}
                \cup {Comparison(ByEntity, 0, "'A; B'")}
                \cup {In(<<c>>, vs) : c \in {ByAlias, Unresolved}, vs \in Rows}
                \cup {In(<<ByEntity>>, <<<<>>, <<Lit("1L")>>>>), In(<<>>, <<<<Lit("1L")>>>>)}
                \cup {Binary(type, c, "'New'") :
                        type \in {"Contains", "DoesNotContain", "StartsWith", "DoesNotStartWith"},
                        c \in {ByAlias, Unresolved}}
                \cup {Between(c) : c \in {ByEntity, Unresolved}}
                \cup {Unary(type, c) : type \in {"IsBlank", "IsNotBlank"}, c \in {ByAlias, Unresolved}}
                \cup {Unknown, <<>>}
        Plain == Comparison(ByEntity, 1, "2020L")
        Core ==
            {Plain, Unknown, Comparison(Unresolved, 0, "'East'"),
             In(<<ByAlias>>, <<<<Lit("'East'")>>>>),
             In(<<ByAlias>>, <<<<Lit("'East'")>>, <<Lit("'West'")>>>>),
             In(<<>>, <<<<Lit("1L")>>>>), Between(ByEntity), Unary("IsBlank", ByAlias)}
        Over(ts) ==
            {"Not" :> ("Expression" :> t) : t \in ts}
                \cup {type :> ("Left" :> t @@ "Right" :> r) : type \in {"And", "Or"}, t \in ts, r \in {Plain, Unknown}}
                \cup {type :> ("Left" :> r @@ "Right" :> t) : type \in {"And", "Or"}, t \in ts, r \in {Plain, Unknown}}
                \cup {"Not" :> <<>>, "And" :> ("Left" :> Plain), "Or" :> ("Right" :> Plain)}
        RECURSIVE Nested(_)
        Nested(n) == IF n = 0 THEN Core ELSE Core \cup Over(Nested(n - 1))
    IN  Leaves \cup Nested(MaxNesting)

InitCondition ==
    /\ ClassifyIdle
    /\ BuildIdle
    /\ EntryIdle
    /\ DepsIdle
    /\ LiteralIdle
    /\ VisibilityIdle
    /\ stored_condition \in Conditions
    /\ stored_from \in {<<"Name" :> "s" @@ "Entity" :> "Store">>, <<>>}
    /\ called = ""
    /\ dax_filter = ""
    /\ dax_filters = <<>>

\* condition_to_dax(condition, from_entities) on the stored condition
ConditionToDax ==
    /\ called = ""
    /\ called' = "condition_to_dax"
    /\ dax_filter' = condition_to_dax(stored_condition, stored_from)
    /\ UNCHANGED <<classifyVars, buildVars, entryVars, depsVars, literalVars, visibilityVars,
                   stored_condition, stored_from, dax_filters>>

\* _extract_single_filter(filter_obj) on a filter object that stores the
\* condition among its Where clauses, or stores no query filter
ExtractSingleFilter ==
    /\ called = ""
    /\ called' = "_extract_single_filter"
    /\ \E where_clauses \in {<<"Condition" :> stored_condition>>,
                             <<<<>>, "Condition" :> stored_condition>>,
                             <<"Condition" :> stored_condition, "Condition" :> stored_condition>>} :
       \E filter_obj \in {"filter" :> ("From" :> stored_from @@ "Where" :> where_clauses),
                          "expression" :> ("Where" :> where_clauses)} :
            dax_filters' = _extract_single_filter(filter_obj)
    /\ UNCHANGED <<classifyVars, buildVars, entryVars, depsVars, literalVars, visibilityVars,
                   stored_condition, stored_from, dax_filter>>

\* _extract_slicer_filters(section) on a bookmark section with one visual,
\* whose objects store the condition
ExtractSlicerFilters ==
    /\ called = ""
    /\ called' = "_extract_slicer_filters"
    /\ \E visual_type_of \in {"slicer", "card"} :
       \E general_list \in
            {<<"properties" :> ("filter" :> ("filter" :>
                    ("From" :> stored_from @@ "Where" :> <<"Condition" :> stored_condition>>)))>>,
             <<"properties" :> <<>>,
               "properties" :> ("filter" :> ("filter" :>
                    ("From" :> stored_from @@ "Where" :> <<"Condition" :> stored_condition>>)))>>} :
            dax_filters' = _extract_slicer_filters(
                "visualContainers" :> <<"singleVisual" :>
                    ("visualType" :> visual_type_of @@ "objects" :> ("merge" :> ("general" :> general_list)))>>)
    /\ UNCHANGED <<classifyVars, buildVars, entryVars, depsVars, literalVars, visibilityVars,
                   stored_condition, stored_from, dax_filter>>

NextCondition == ConditionToDax \/ ExtractSingleFilter \/ ExtractSlicerFilters

SpecCondition == InitCondition /\ [][NextCondition]_vars

(***************************************************************************)
(* Claims about the condition translator.                                  *)
(***************************************************************************)
\* the twelve node types the translator recognizes
RecognizedTypes ==
    {"Comparison", "In", "Not", "And", "Or", "Between", "Contains", "DoesNotContain",
     "StartsWith", "DoesNotStartWith", "IsBlank", "IsNotBlank"}

\* the operand nodes an And, Or or Not node holds
Operands(c) ==
    LET under(type, keys) == IF type \in DOMAIN c THEN {c[type][k] : k \in keys \cap DOMAIN c[type]} ELSE {}
    IN  under("And", {"Left", "Right"}) \cup under("Or", {"Left", "Right"}) \cup under("Not", {"Expression"})

\* every node of the tree has one of the twelve recognized types
RECURSIVE AllRecognized(_)
AllRecognized(c) == DOMAIN c \cap RecognizedTypes # {} /\ \A operand \in Operands(c) : AllRecognized(operand)

\* ... and every And / Or has both operands, every Not has its operand and
\* every In names a column
RECURSIVE WellFormed(_)
WellFormed(c) ==
    /\ DOMAIN c \cap RecognizedTypes # {}
    /\ \A type \in {"And", "Or"} \cap DOMAIN c : {"Left", "Right"} \subseteq DOMAIN c[type]
    /\ "Not" \in DOMAIN c => "Expression" \in DOMAIN c["Not"]
    /\ "In" \in DOMAIN c => Get(c["In"], "Expressions", <<>>) # <<>>
    /\ \A operand \in Operands(c) : WellFormed(operand)

\* the values of an In node, rendered, in input order
ValuesOf(in_node) ==
    LET kept == SelectSeq(in_node["Values"], LAMBDA val_row : val_row # <<>>) IN
    [i \in DOMAIN kept |-> parse_literal(kept[i][1]["Literal"]["Value"])]

\* the column an expression names, under the stored From list
ColumnOf(col_expr) == _resolve_column_ref(col_expr, _build_alias_map(stored_from))

\* C11: a Comparison node with kind k in 0..5 on a column of a known table
\* renders as 'Table'[Column], the k-th operator of (=, >, >=, <, <=, <>) and
\* the parsed literal; a kind outside 0..5 is not rendered with any of the
\* six operators.
C11_ComparisonRendersByKind ==
    LET Ops == <<"=", ">", ">=", "<", "<=", "<>">>
        text(comp, tc, op) ==
            "'" \o tc[1] \o "'[" \o tc[2] \o "] " \o op \o " " \o parse_literal(comp["Right"]["Literal"]["Value"])
        holds(comp) ==
            IF comp["ComparisonKind"] \in 0..5
            THEN dax_filter = text(comp, ColumnOf(comp["Left"]), Ops[comp["ComparisonKind"] + 1])
            ELSE \A i \in 1..6 : dax_filter # text(comp, ColumnOf(comp["Left"]), Ops[i])
    IN  (/\ called = "condition_to_dax"
         /\ "Comparison" \in DOMAIN stored_condition
         /\ "ComparisonKind" \in DOMAIN stored_condition["Comparison"]
         /\ ColumnOf(stored_condition["Comparison"]["Left"])[1] # "")
            => holds(stored_condition["Comparison"])

\* C12: an In node over one column renders "col = v" for one value and
\* "col IN {v1, v2, ...}" for two or more, values in input order; directly
\* under Not it renders "col <> v" and "NOT col IN {v1, v2, ...}".
C12_InRendersByCount ==
    LET expected(col, vs, eq, prefix) ==
            Len(vs) >= 1 =>
                dax_filter = (IF Len(vs) = 1 THEN col \o eq \o vs[1]
                              ELSE prefix \o col \o " IN {" \o JoinWith(", ", vs) \o "}")
        of(in_node, eq, prefix) ==
            Len(Get(in_node, "Expressions", <<>>)) = 1 =>
                expected(column_ref(ColumnOf(in_node["Expressions"][1])), ValuesOf(in_node), eq, prefix)
        negated(c) == "Not" \in DOMAIN c /\ "In" \in DOMAIN Get(c["Not"], "Expression", <<>>)
    IN  called = "condition_to_dax" =>
            /\ "In" \in DOMAIN stored_condition => of(stored_condition["In"], " = ", "")
            /\ negated(stored_condition) => of(stored_condition["Not"]["Expression"]["In"], " <> ", "NOT ")

C12_Witness ==
    /\ called = "condition_to_dax"
    /\ "Not" \in DOMAIN stored_condition
    /\ dax_filter = "NOT 'Store'[Store Type] IN {\"East\", \"West\"}"

\* C13 as stated: a tree whose nodes all have recognized types renders with
\* no "--" marker, whatever its nodes hold.
C13_RecognizedNeverMarked ==
    (called = "condition_to_dax" /\ AllRecognized(stored_condition)) => ~Contains(dax_filter, "--")

\* C13: a tree whose nodes all have recognized types, whose And / Or / Not
\* nodes hold their operands and whose In nodes name a column, renders with
\* no "--" marker.
C13_WellFormedNeverMarked ==
    (called = "condition_to_dax" /\ WellFormed(stored_condition)) => ~Contains(dax_filter, "--")

C13_Witness ==
    /\ called = "condition_to_dax"
    /\ WellFormed(stored_condition)
    /\ dax_filter = "(NOT ('Sales'[Year] >= 1 && 'Sales'[Year] <= 9)) || ('Sales'[Year] > 2020)"

\* every prefix of s has at least as many open as close, and s as many
Balanced(s, open, close) ==
    LET at(ch) == {i \in 1..Len(s) : Char(s, i) = ch}
        upto(ps, n) == Cardinality({i \in ps : i <= n})
    IN  /\ Cardinality(at(open)) = Cardinality(at(close))
        /\ \A n \in at(close) : upto(at(open), n) >= upto(at(close), n)

\* every && and || of s stands between two non-empty operands
NoDanglingOperator(s) ==
    \A i \in 1..(Len(s) - 1) :
        SubSeq(s, i, i + 1) \in {"&&", "||"} =>
            /\ 3 <= i /\ i + 3 <= Len(s)
            /\ Char(s, i - 1) = " " /\ Char(s, i + 2) = " "
            /\ Char(s, i - 2) \notin {" ", "(", "{", "&", "|"}
            /\ Char(s, i + 3) \notin {" ", ")", "}", "&", "|"}

C15_MarkedConditionsAreExcluded ==
    called \in {"_extract_single_filter", "_extract_slicer_filters"} =>
        \A i \in DOMAIN dax_filters : ~Contains(dax_filters[i], "-- unsupported condition type")

\* C16: a leaf condition renders with a table-qualified column reference or
\* renders to a marker, never as a predicate over a bare [Column].
C16_LeafIsQualifiedOrMarked ==
    LET bare(s) == \E i \in 1..Len(s) : Char(s, i) = "[" /\ (i = 1 \/ Char(s, i - 1) # "'")
    IN  (called = "condition_to_dax" /\ DOMAIN stored_condition \cap {"And", "Or", "Not"} = {}) =>
            \/ StartsWith(dax_filter, "--")
            \/ (Contains(dax_filter, "'[") /\ ~bare(dax_filter))

\* the operator op stands in s outside every pair of parentheses
AtDepthZero(s, op) ==
    LET depth(i) == Cardinality({j \in 1..(i - 1) : Char(s, j) = "("})
                        - Cardinality({j \in 1..(i - 1) : Char(s, j) = ")"})
    IN  \E i \in 1..(Len(s) - Len(op) + 1) : SubSeq(s, i, i + Len(op) - 1) = op /\ depth(i) = 0

\* C28: the rendering keeps the grouping of the tree when it is read with &&
\* binding at least as tightly as ||: the rendering of an And node has no ||
\* outside parentheses, so And(c, Or(a, b)) does not read as (c && a) || b.
C28_AndKeepsItsOperands ==
    (called = "condition_to_dax" /\ "And" \in DOMAIN stored_condition /\ WellFormed(stored_condition)) =>
        ~AtDepthZero(dax_filter, "||")

\* filter_dax = "; ".join(bm.filters) if bm.filters else "": the Filter DAX
\* cell export_to_excel writes for a bookmark
filter_dax_cell(bm_filters) == IF bm_filters = <<>> THEN "" ELSE JoinWith("; ", bm_filters)

\* C29: the filter list of a bookmark, joined with "; " into the Filter DAX
\* cell and split again on ";" with the parts trimmed, as
\* build_bookmark_queries reads the cell, is the same list; also when a
\* filter holds a string literal with a ";" in it.
C29_FilterCellRoundTrips ==
    called \in {"_extract_single_filter", "_extract_slicer_filters"} =>
        split_filter_dax(filter_dax_cell(dax_filters)) = dax_filters

(***************************************************************************)
(* Visual visibility: bookmark_parser.py.  A dict is modelled by its items *)
(* in insertion order: visualContainers as records [id, mode] (mode "" for *)
(* a container without display.mode), visualContainerGroups as records     *)
(* [id, isHidden, children] and the children as records [id, isHidden].    *)
(***************************************************************************)
\* visibility[id] = visible
Assigned(vis, id, visible) == [k \in DOMAIN vis \cup {id} |-> IF k = id THEN visible ELSE vis[k]]

RECURSIVE after_containers(_, _)
\* for vis_id, vis_data in visual_containers.items(): ...
after_containers(vis, containers) ==
    IF containers = <<>> THEN vis
    ELSE after_containers(
             IF Head(containers).mode = "hidden" THEN Assigned(vis, Head(containers).id, FALSE)
             ELSE IF Head(containers).id \in DOMAIN vis THEN Assigned(vis, Head(containers).id, TRUE)
             ELSE vis,
             Tail(containers))

RECURSIVE after_children(_, _, _)
\* for child_id, child_data in children.items(): ...
after_children(vis, children, page_visual_ids) ==
    IF children = <<>> THEN vis
    ELSE after_children(
             IF Head(children).id \in page_visual_ids
             THEN Assigned(vis, Head(children).id, ~Head(children).isHidden)
             ELSE vis,
             Tail(children), page_visual_ids)

RECURSIVE after_groups(_, _, _)
\* for group_id, group_data in visual_groups.items(): ...
after_groups(vis, groups, page_visual_ids) ==
    IF groups = <<>> THEN vis
    ELSE after_groups(
             after_children(IF Head(groups).id \in page_visual_ids
                            THEN Assigned(vis, Head(groups).id, ~Head(groups).isHidden)
                            ELSE vis,
                            Head(groups).children, page_visual_ids),
             Tail(groups), page_visual_ids)

\* _extract_visual_visibility(section, page_visual_ids, visual_id_to_name)
_extract_visual_visibility(sec, page_visual_ids) ==
    after_groups(after_containers([vid \in page_visual_ids |-> TRUE], sec.visualContainers),
                 sec.visualContainerGroups, page_visual_ids)

MaxContainers == 2      \* entries of visualContainers
MaxGroups == 1          \* entries of visualContainerGroups
MaxChildren == 1        \* children of a group

\* ids of visuals, one of them the id of a group that is a visual container,
\* and one that no page of the report has
ContainerIds == {"v1", "v2", "x9"}
GroupIds == {"g1", "v1"}

\* a dict has each key once
DistinctIds(items) == \A i, j \in DOMAIN items : i # j => items[i].id # items[j].id

Sections ==
    LET Containers == {cs \in SeqsOf([id : ContainerIds, mode : {"hidden", ""}], 0, MaxContainers) : DistinctIds(cs)}
        Children == {ch \in SeqsOf([id : {"v1", "v2"}, isHidden : BOOLEAN], 0, MaxChildren) : DistinctIds(ch)}
        Groups == {gs \in SeqsOf([id : GroupIds, isHidden : BOOLEAN, children : Children], 0, MaxGroups) : DistinctIds(gs)}
    IN  [visualContainers : Containers, visualContainerGroups : Groups]

InitVisibility ==
    /\ ClassifyIdle
    /\ BuildIdle
    /\ EntryIdle
    /\ DepsIdle
    /\ LiteralIdle
    /\ ConditionIdle
    /\ bookmark_section \in Sections
    /\ page_visuals \in {{"v1", "v2"}, {"v1", "g1"}}
    /\ visibility = NoVisibility
    /\ extracted = FALSE

\* visibility = _extract_visual_visibility(section, page_visuals, visual_id_to_name)
ExtractVisualVisibility ==
    /\ ~extracted
    /\ extracted' = TRUE
    /\ visibility' = _extract_visual_visibility(bookmark_section, page_visuals)
    /\ UNCHANGED <<classifyVars, buildVars, entryVars, depsVars, literalVars, conditionVars,
                   bookmark_section, page_visuals>>

SpecVisibility == InitVisibility /\ [][ExtractVisualVisibility]_vars

(***************************************************************************)
(* Claims about visual visibility                                          *)
(***************************************************************************)
\* the ids the section mentions: container ids, group ids and child ids
Mentioned ==
    {bookmark_section.visualContainers[i].id : i \in DOMAIN bookmark_section.visualContainers}
        \cup {bookmark_section.visualContainerGroups[i].id : i \in DOMAIN bookmark_section.visualContainerGroups}
        \cup UNION {{g.children[k].id : k \in DOMAIN g.children} : g \in Range(bookmark_section.visualContainerGroups)}

\* the ids of the container entries with display mode "hidden"
HiddenContainers ==
    {bookmark_section.visualContainers[i].id :
        i \in {i \in DOMAIN bookmark_section.visualContainers : bookmark_section.visualContainers[i].mode = "hidden"}}

\* C30: in the map _extract_visual_visibility returns, every visual of the
\* page that the section does not mention is visible; every visual whose
\* visualContainers entry has display mode "hidden" is hidden, also when it
\* is the id or a child of a visualContainerGroups entry; and every key is a
\* visual of the page.
C30_VisibilityOfThePage ==
    extracted =>
        /\ \A vid \in page_visuals \ Mentioned : vid \in DOMAIN visibility /\ visibility[vid]
        /\ \A vid \in HiddenContainers : vid \in DOMAIN visibility /\ ~visibility[vid]
        /\ DOMAIN visibility \subseteq page_visuals

============================================================================
